---- MODULE Spec2Model ----
(***************************************************************************)
(* Object-model synchronisation of the pendant firmware: the poll          *)
(* scheduler of the main loop, the sequence counters with their dirty      *)
(* bits, and the callbacks the serial parser makes for a received message  *)
(* (StartReceivedMessage, ProcessReceivedValue, EndReceivedMessage), with   *)
(* the message box alert they stage and deliver, the lists of tools,       *)
(* spindles, beds and chambers they fill, and the sort and the binary      *)
(* search of the field table.                                              *)
(*                                                                         *)
(* Strings are sequences of tokens: a name, ":" or "^", so that            *)
(* "seqs:heat" is <<"seqs", ":", "heat">> and "" is << >>.  A received     *)
(* value (the text of a JSON value) is a record, see the Text section.     *)
(* Times are milliseconds of SystemTick::GetTickCount(); the 32-bit wrap   *)
(* of the tick counter (49 days) lies beyond MaxTick and is not modelled.  *)
(***************************************************************************)
EXTENDS Integers, Sequences, FiniteSets, TLC

(* ------------------------------ bounds -------------------------------- *)

\* The clock is followed up to this tick.
MaxTick == 6000

\* At most this many tuples are delivered by the serial parser in one run of
\* Spec, SpecKey, SpecSeqs, SpecRestart and SpecPoll.
MaxSchedTuples == 5

MaxKeyTuples == 4

MaxSeqsTuples == 5

MaxRestartTuples == 5

MaxPollTuples == 4

\* ... and in one run of SpecStore.
MaxStoreTuples == 7

\* ... and in one run of SpecContext.
MaxContextTuples == 3

\* ... and in one run of SpecAlert: three messages with their key and the six
\* fields of the message box.
MaxAlertTuples == 21

\* The declarations of the field table tried in SpecDispatch: rotations of the
\* source's by multiples of RotateStep, and these reversed.
MaxRotations == 2

RotateStep == 20

\* The time SerialIo::SendString / Sendf may take (the clock is read again
\* after the send).
SendDelays == {0, 1000}

(* ------------------------- program constants -------------------------- *)

defaultPrinterPollInterval == 1000

slowPrinterPollInterval == defaultPrinterPollInterval * 4

printerResponseInterval == 700

printerPollTimeout == 4000

\* (uint16_t)((1 << 16)-1), the value resetSeqs gives every counter.
SeqsResetValue == 65535

\* The sequence counters are uint16_t.
SeqsModulus == 65536

\* SpecStatus: the tuples received in one run.
MaxStatusTuples == 7

\* SpecLive: the tuples received in one run.
MaxLiveTuples == 5

\* SpecArray: the tuples received in one run.
MaxArrayTuples == 5

\* SpecFair: the restarts that are detected in one run.
MaxFairRestarts == 1

\* SpecList: the nodes a collection may hold before a call that creates one.
MaxNodes == 5

\* ARRAY_SIZE(axisNames)
MaxTotalAxes == 10

\* The length of currentTemps (the build with the smaller display).
MaxHeaters == 5

\* The length of currentTempsPJob.
MaxPendantTools == 6

\* The tool that stands for the probe.
ProbeToolIndex == 10

\* The subsystems of struct Seqs.
Subsystems ==
    {"boards", "directories", "fans", "heat", "inputs", "job", "move",
     "network", "scanner", "sensors", "spindles", "state", "tools", "volumes"}

\* The FETCH_* defines: which detailed M409 requests are compiled in.
FETCH ==
    [boards |-> 1, directories |-> 0, fans |-> 0, heat |-> 1, inputs |-> 0,
     job |-> 1, move |-> 1, network |-> 1, scanner |-> 0, sensors |-> 0,
     spindles |-> 1, state |-> 1, tools |-> 1, volumes |-> 1]

\* The field table (declaration order; the program sorts it once at startup).
fieldTable ==
    << [rde |-> "rcvKey", varName |-> <<"key">>],
       [rde |-> "rcvLiveFansActualValue", varName |-> <<"fans", "^", ":", "actualValue">>],
       [rde |-> "rcvLiveHeatHeatersActive", varName |-> <<"heat", ":", "heaters", "^", ":", "active">>],
       [rde |-> "rcvLiveHeatHeatersCurrent", varName |-> <<"heat", ":", "heaters", "^", ":", "current">>],
       [rde |-> "rcvLiveHeatHeatersStandby", varName |-> <<"heat", ":", "heaters", "^", ":", "standby">>],
       [rde |-> "rcvLiveHeatHeatersState", varName |-> <<"heat", ":", "heaters", "^", ":", "state">>],
       [rde |-> "rcvLiveJobFilePosition", varName |-> <<"job", ":", "filePosition">>],
       [rde |-> "rcvLiveJobTimesLeftFilament", varName |-> <<"job", ":", "timesLeft", ":", "filament">>],
       [rde |-> "rcvLiveJobTimesLeftFile", varName |-> <<"job", ":", "timesLeft", ":", "file">>],
       [rde |-> "rcvLiveJobTimesLeftLayer", varName |-> <<"job", ":", "timesLeft", ":", "layer">>],
       [rde |-> "rcvLiveMoveAxesMachinePosition", varName |-> <<"move", ":", "axes", "^", ":", "machinePosition">>],
       [rde |-> "rcvLiveMoveAxesUserPosition", varName |-> <<"move", ":", "axes", "^", ":", "userPosition">>],
       [rde |-> "rcvLiveSensorsProbeValue", varName |-> <<"sensors", ":", "probes", "^", ":", "value", "^">>],
       [rde |-> "rcvLiveSeqsBoards", varName |-> <<"seqs", ":", "boards">>],
       [rde |-> "rcvLiveSeqsDirectories", varName |-> <<"seqs", ":", "directories">>],
       [rde |-> "rcvLiveSeqsFans", varName |-> <<"seqs", ":", "fans">>],
       [rde |-> "rcvLiveSeqsHeat", varName |-> <<"seqs", ":", "heat">>],
       [rde |-> "rcvLiveSeqsInputs", varName |-> <<"seqs", ":", "inputs">>],
       [rde |-> "rcvLiveSeqsJob", varName |-> <<"seqs", ":", "job">>],
       [rde |-> "rcvLiveSeqsMove", varName |-> <<"seqs", ":", "move">>],
       [rde |-> "rcvLiveSeqsNetwork", varName |-> <<"seqs", ":", "network">>],
       [rde |-> "rcvLiveSeqsReply", varName |-> <<"seqs", ":", "reply">>],
       [rde |-> "rcvLiveSeqsScanner", varName |-> <<"seqs", ":", "scanner">>],
       [rde |-> "rcvLiveSeqsSensors", varName |-> <<"seqs", ":", "sensors">>],
       [rde |-> "rcvLiveSeqsSpindles", varName |-> <<"seqs", ":", "spindles">>],
       [rde |-> "rcvLiveSeqsState", varName |-> <<"seqs", ":", "state">>],
       [rde |-> "rcvLiveSeqsTools", varName |-> <<"seqs", ":", "tools">>],
       [rde |-> "rcvLiveSeqsVolumes", varName |-> <<"seqs", ":", "volumes">>],
       [rde |-> "rcvLiveSpindlesCurrent", varName |-> <<"spindles", "^", ":", "current">>],
       [rde |-> "rcvLiveStateCurrentTool", varName |-> <<"state", ":", "currentTool">>],
       [rde |-> "rcvLiveStateStatus", varName |-> <<"state", ":", "status">>],
       [rde |-> "rcvLiveStateUptime", varName |-> <<"state", ":", "upTime">>],
       [rde |-> "rcvLiveToolsState", varName |-> <<"tools", "^", ":", "state">>],
       [rde |-> "rcvBoardsFirmwareName", varName |-> <<"boards", "^", ":", "firmwareName">>],
       [rde |-> "rcvHeatBedHeaters", varName |-> <<"heat", ":", "bedHeaters", "^">>],
       [rde |-> "rcvHeatChamberHeaters", varName |-> <<"heat", ":", "chamberHeaters", "^">>],
       [rde |-> "rcvJobFileFilename", varName |-> <<"job", ":", "file", ":", "fileName">>],
       [rde |-> "rcvJobFileSize", varName |-> <<"job", ":", "file", ":", "size">>],
       [rde |-> "rcvMoveAxesBabystep", varName |-> <<"move", ":", "axes", "^", ":", "babystep">>],
       [rde |-> "rcvMoveAxesHomed", varName |-> <<"move", ":", "axes", "^", ":", "homed">>],
       [rde |-> "rcvMoveAxesLetter", varName |-> <<"move", ":", "axes", "^", ":", "letter">>],
       [rde |-> "rcvMoveAxesVisible", varName |-> <<"move", ":", "axes", "^", ":", "visible">>],
       [rde |-> "rcvMoveAxesWorkplaceOffsets", varName |-> <<"move", ":", "axes", "^", ":", "workplaceOffsets", "^">>],
       [rde |-> "rcvMoveExtrudersFactor", varName |-> <<"move", ":", "extruders", "^", ":", "factor">>],
       [rde |-> "rcvMoveKinematicsName", varName |-> <<"move", ":", "kinematics", ":", "name">>],
       [rde |-> "rcvMoveSpeedFactor", varName |-> <<"move", ":", "speedFactor">>],
       [rde |-> "rcvMoveWorkplaceNumber", varName |-> <<"move", ":", "workplaceNumber">>],
       [rde |-> "rcvNetworkName", varName |-> <<"network", ":", "name">>],
       [rde |-> "rcvNetworkInterfacesActualIP", varName |-> <<"network", ":", "interfaces", "^", ":", "actualIP">>],
       [rde |-> "rcvSpindlesActive", varName |-> <<"spindles", "^", ":", "active">>],
       [rde |-> "rcvSpindlesMax", varName |-> <<"spindles", "^", ":", "max">>],
       [rde |-> "rcvSpindlesTool", varName |-> <<"spindles", "^", ":", "tool">>],
       [rde |-> "rcvStateMessageBox", varName |-> <<"state", ":", "messageBox">>],
       [rde |-> "rcvStateMessageBoxAxisControls", varName |-> <<"state", ":", "messageBox", ":", "axisControls">>],
       [rde |-> "rcvStateMessageBoxMessage", varName |-> <<"state", ":", "messageBox", ":", "message">>],
       [rde |-> "rcvStateMessageBoxMode", varName |-> <<"state", ":", "messageBox", ":", "mode">>],
       [rde |-> "rcvStateMessageBoxSeq", varName |-> <<"state", ":", "messageBox", ":", "seq">>],
       [rde |-> "rcvStateMessageBoxTimeout", varName |-> <<"state", ":", "messageBox", ":", "timeout">>],
       [rde |-> "rcvStateMessageBoxTitle", varName |-> <<"state", ":", "messageBox", ":", "title">>],
       [rde |-> "rcvToolsExtruders", varName |-> <<"tools", "^", ":", "extruders", "^">>],
       [rde |-> "rcvToolsHeaters", varName |-> <<"tools", "^", ":", "heaters", "^">>],
       [rde |-> "rcvToolsNumber", varName |-> <<"tools", "^", ":", "number">>],
       [rde |-> "rcvToolsOffsets", varName |-> <<"tools", "^", ":", "offsets", "^">>],
       [rde |-> "rcvVolumesMounted", varName |-> <<"volumes", "^", ":", "mounted">>],
       [rde |-> "rcvM20Dir", varName |-> <<"dir">>],
       [rde |-> "rcvM20Err", varName |-> <<"err">>],
       [rde |-> "rcvM20Files", varName |-> <<"files", "^">>],
       [rde |-> "rcvM36Filament", varName |-> <<"filament", "^">>],
       [rde |-> "rcvM36Filename", varName |-> <<"fileName">>],
       [rde |-> "rcvM36GeneratedBy", varName |-> <<"generatedBy">>],
       [rde |-> "rcvM36Height", varName |-> <<"height">>],
       [rde |-> "rcvM36LastModified", varName |-> <<"lastModified">>],
       [rde |-> "rcvM36LayerHeight", varName |-> <<"layerHeight">>],
       [rde |-> "rcvM36PrintTime", varName |-> <<"printTime">>],
       [rde |-> "rcvM36SimulatedTime", varName |-> <<"simulatedTime">>],
       [rde |-> "rcvM36Size", varName |-> <<"size">>],
       [rde |-> "rcvPushMessage", varName |-> <<"message">>],
       [rde |-> "rcvPushResponse", varName |-> <<"resp">>],
       [rde |-> "rcvPushSeq", varName |-> <<"seq">>],
       [rde |-> "rcvPushBeepDuration", varName |-> <<"beep_length">>],
       [rde |-> "rcvPushBeepFrequency", varName |-> <<"beep_freq">>] >>

keyResponseTypeTable ==
    << [rde |-> "rcvOMKeyNoKey", varName |-> <<>>],
       [rde |-> "rcvOMKeyBoards", varName |-> <<"boards">>],
       [rde |-> "rcvOMKeyDirectories", varName |-> <<"directories">>],
       [rde |-> "rcvOMKeyFans", varName |-> <<"fans">>],
       [rde |-> "rcvOMKeyHeat", varName |-> <<"heat">>],
       [rde |-> "rcvOMKeyInputs", varName |-> <<"inputs">>],
       [rde |-> "rcvOMKeyJob", varName |-> <<"job">>],
       [rde |-> "rcvOMKeyLimits", varName |-> <<"limits">>],
       [rde |-> "rcvOMKeyMove", varName |-> <<"move">>],
       [rde |-> "rcvOMKeyNetwork", varName |-> <<"network">>],
       [rde |-> "rcvOMKeyReply", varName |-> <<"reply">>],
       [rde |-> "rcvOMKeyScanner", varName |-> <<"scanner">>],
       [rde |-> "rcvOMKeySensors", varName |-> <<"sensors">>],
       [rde |-> "rcvOMKeySeqs", varName |-> <<"seqs">>],
       [rde |-> "rcvOMKeySpindles", varName |-> <<"spindles">>],
       [rde |-> "rcvOMKeyState", varName |-> <<"state">>],
       [rde |-> "rcvOMKeyTools", varName |-> <<"tools">>],
       [rde |-> "rcvOMKeyVolumes", varName |-> <<"volumes">>] >>

\* rcvLiveSeqs* event -> the counter of struct Seqs it updates (UpdateSeqs).
SeqsOfRde ==
    [rcvLiveSeqsBoards |-> "boards", rcvLiveSeqsDirectories |-> "directories",
     rcvLiveSeqsFans |-> "fans", rcvLiveSeqsHeat |-> "heat",
     rcvLiveSeqsInputs |-> "inputs", rcvLiveSeqsJob |-> "job",
     rcvLiveSeqsMove |-> "move", rcvLiveSeqsNetwork |-> "network",
     rcvLiveSeqsScanner |-> "scanner", rcvLiveSeqsSensors |-> "sensors",
     rcvLiveSeqsSpindles |-> "spindles", rcvLiveSeqsState |-> "state",
     rcvLiveSeqsTools |-> "tools", rcvLiveSeqsVolumes |-> "volumes"]

\* rcvOMKey* response type -> the dirty bit SeqsRequestDone clears.
UpdateOfKey ==
    [rcvOMKeyBoards |-> "boards", rcvOMKeyDirectories |-> "directories",
     rcvOMKeyFans |-> "fans", rcvOMKeyHeat |-> "heat",
     rcvOMKeyInputs |-> "inputs", rcvOMKeyJob |-> "job",
     rcvOMKeyMove |-> "move", rcvOMKeyNetwork |-> "network",
     rcvOMKeyScanner |-> "scanner", rcvOMKeySensors |-> "sensors",
     rcvOMKeySpindles |-> "spindles", rcvOMKeyState |-> "state",
     rcvOMKeyTools |-> "tools", rcvOMKeyVolumes |-> "volumes"]

\* struct OMRequestParams: key and flags ("v" unless given).
OMRequestParams(key) == [key |-> key, flags |-> IF key = "state" THEN "vn" ELSE "v"]

nullptr == [key |-> "nullptr", flags |-> "nullptr"]

noKeyParams == [key |-> "", flags |-> "v"]

(* -------------------------------- Text -------------------------------- *)
(* The text of a received value:                                           *)
(*   [form |-> "empty"]                      the empty string              *)
(*   [form |-> "int", n |-> n]               a decimal integer, "25", "-1" *)
(*   [form |-> "dec", neg, whole, tenths]    a decimal fraction, "25.5"    *)
(*   [form |-> "word", s |-> s]              any other text, "heat"        *)

EmptyText == [form |-> "empty"]

IntText(n) == [form |-> "int", n |-> n]

DecText(neg, whole, tenths) == [form |-> "dec", neg |-> neg, whole |-> whole, tenths |-> tenths]

WordText(s) == [form |-> "word", s |-> s]

\* The characters of a text as a token sequence, for the table searches
\* (a numeral is one token, which is in no table).
Tokens(data) ==
    CASE data.form = "empty" -> << >>
      [] data.form = "word" -> <<data.s>>
      [] OTHER -> <<"0">>

\* GetInteger: a strict integer parse, else a float parse rounded half away
\* from zero ((int)(d < 0 ? d - 0.5 : d + 0.5)); the empty string fails.
GetInteger(data) ==
    CASE data.form = "empty" -> [ok |-> FALSE, rslt |-> 0]
      [] data.form = "int" -> [ok |-> TRUE, rslt |-> data.n]
      [] data.form = "dec" ->
            LET mag == data.whole + (IF data.tenths >= 5 THEN 1 ELSE 0)
            IN  [ok |-> TRUE, rslt |-> IF data.neg THEN -mag ELSE mag]
      [] OTHER -> [ok |-> FALSE, rslt |-> 0]

\* GetUnsignedInteger: StrToU32 must consume the whole text.
GetUnsignedInteger(data) ==
    IF data.form = "int" /\ data.n >= 0
        THEN [ok |-> TRUE, rslt |-> data.n]
        ELSE [ok |-> FALSE, rslt |-> 0]

(* ------------------------------- tables ------------------------------- *)

\* bsearch without the comparison after its loop: for a key in no entry, the
\* rde of the entry the loop ended at.
bsearchNoFinalCompare(table, key) ==
    IF \E i \in 1..Len(table) : table[i].varName = key
        THEN table[CHOOSE i \in 1..Len(table) : table[i].varName = key].rde
        ELSE table[1].rde

\* bsearch over a table: the rde of the entry whose varName is key, or
\* rcvUnknown.
bsearch(table, key) ==
    IF \E i \in 1..Len(table) : table[i].varName = key
        THEN table[CHOOSE i \in 1..Len(table) : table[i].varName = key].rde
        ELSE "rcvUnknown"

(* ------------------------------- state -------------------------------- *)

VARIABLES
    tick,                   \* SystemTick::GetTickCount()
    lastPollTime,
    lastResponseTime,
    printerPollInterval,
    screensaverActive,
    currentTab,             \* UI: the page displayed
    seqs,                   \* struct Seqs: the counters
    seqsUpdate,             \* struct Seqs: the update* bits
    currentResponseType,
    remoteUpTime,
    initialized,
    status,                 \* the PrinterStatus displayed
    sent,                   \* what step 6 of the latest main-loop pass sent
    pollTurn,               \* flips at every pass through step 6
    \* history
    msgKey,                 \* the response type the key tuple of this message gave
    responseSincePoll,      \* a message end was processed after lastPollTime was set
    restarts,               \* restarts detected (calls of resetSeqs by the uptime handler)
    decreases,              \* strict decreases between consecutive accepted uptimes
    lastUpTime,             \* the uptime accepted last, -1 before the first
    seqsReceived,           \* per subsystem, the sequence value received last and a turn bit
    nTuples,                \* tuples delivered so far
    resetPending,           \* subsystems with no sequence value received since resetSeqs
    \* alerts
    currentAlert,           \* Alert currentAlert: flags and the six fields
    lastAlertSeq,
    alertMode,              \* UI: the mode of the alert displayed, -1 for none
    alertLog,               \* history: the calls of UI::ProcessAlert and UI::ClearAlert
    msgAlert,               \* history: the alert fields the tuples of this message gave
    msgIndex,               \* history: the index this message's tools^:number and
                            \* spindles^:active tuple gave last, -1 for none
    \* object model
    tools,                  \* the list of tools, head first
    spindles,               \* the list of spindles, head first
    beds,
    chambers,
    bedSeen,                \* static bool seen of case rcvHeatBedHeaters
    chamberSeen,            \* static bool seen of case rcvHeatChamberHeaters
    axes,                   \* the list of axes, head first
    lastTool,               \* the index of the latest element of tools^ in this reply
    lastSpindle,
    visibleAxesCounted,
    omCall,                 \* history: the latest direct call on a collection
    \* field table
    declared,               \* the field table as declared
    sorted,                 \* the field table after the sort at startup
    found,                  \* history: the path searched for last and what bsearch returned
    lastFound               \* history: the same of the search before it

vars ==
    <<tick, lastPollTime, lastResponseTime, printerPollInterval, screensaverActive,
      currentTab, seqs, seqsUpdate, currentResponseType, remoteUpTime, initialized, status,
      sent, pollTurn, msgKey, responseSincePoll, restarts, decreases, lastUpTime,
      seqsReceived, nTuples, resetPending, currentAlert, lastAlertSeq, alertMode,
      alertLog, msgAlert, msgIndex, tools, spindles, beds, chambers, bedSeen,
      chamberSeen, axes, lastTool, lastSpindle, visibleAxesCounted, omCall,
      declared, sorted, found, lastFound>>

alertVars == <<currentAlert, lastAlertSeq, alertMode, alertLog>>

storeVars == <<tools, spindles, beds, chambers, bedSeen, chamberSeen>>

\* What the array handlers keep: the axes and the counts of a reply.
arrayVars == <<axes, lastTool, lastSpindle, visibleAxesCounted>>

tableVars == <<declared, sorted, found, lastFound>>

\* What step 6, the clock and the touch handlers leave alone.
messageVars == <<resetPending, alertVars, msgAlert, msgIndex, storeVars, arrayVars, omCall, tableVars>>

clockVars == <<tick, lastPollTime, lastResponseTime>>

uiVars == <<printerPollInterval, screensaverActive, currentTab>>

seqVars == <<seqs, seqsUpdate>>

rxVars == <<seqsReceived, nTuples>>

upVars == <<remoteUpTime, restarts, decreases, lastUpTime>>

\* The requests step 6 hands to SerialIo.
NoRequest == << >>

SummaryRequest == <<"M409", "F", "d99f">>

DetailRequest(params) == <<"M409", "K", params.key, "F", params.flags>>

\* FileManager::ProcessTimers returned true: it used the turn for a request
\* of its own.
FileManagerRequest == <<"FileManager">>

(* ------------------------------ scheduler ------------------------------ *)

\* printerStatusMap: the texts of state:status and the PrinterStatus of each.
printerStatusMap ==
    <<[key |-> <<"idle">>, val |-> "idle"], [key |-> <<"off">>, val |-> "off"]>>

\* resetSeqs with every update bit set to true.
resetSeqsAllDirty ==
    /\ seqs' = [s \in Subsystems |-> SeqsResetValue]
    /\ seqsUpdate' = [s \in Subsystems |-> TRUE]
    /\ initialized' = FALSE
    /\ status' = "panelInitializing"

\* resetSeqs: every counter to 0xFFFF, every update bit to false, Reconnect().
resetSeqs ==
    /\ seqs' = [s \in Subsystems |-> SeqsResetValue]
    /\ seqsUpdate' = [s \in Subsystems |-> FALSE]
    /\ initialized' = FALSE
    /\ status' = "panelInitializing"

\* GetNextToPoll with the tests of move and heat in the other order.
GetNextToPollHeatFirst ==
    IF seqsUpdate["network"] THEN OMRequestParams("network")
    ELSE IF seqsUpdate["boards"] THEN OMRequestParams("boards")
    ELSE IF seqsUpdate["heat"] THEN OMRequestParams("heat")
    ELSE IF seqsUpdate["move"] THEN OMRequestParams("move")
    ELSE IF seqsUpdate["tools"] THEN OMRequestParams("tools")
    ELSE IF seqsUpdate["spindles"] THEN OMRequestParams("spindles")
    ELSE IF seqsUpdate["directories"] THEN OMRequestParams("directories")
    ELSE IF seqsUpdate["fans"] THEN OMRequestParams("fans")
    ELSE IF seqsUpdate["inputs"] THEN OMRequestParams("inputs")
    ELSE IF seqsUpdate["job"] THEN OMRequestParams("job")
    ELSE IF seqsUpdate["scanner"] THEN OMRequestParams("scanner")
    ELSE IF seqsUpdate["sensors"] THEN OMRequestParams("sensors")
    ELSE IF seqsUpdate["state"] THEN OMRequestParams("state")
    ELSE IF seqsUpdate["volumes"] THEN OMRequestParams("volumes")
    ELSE nullptr

\* GetNextToPoll that returns the volumes parameters where the code returns
\* nullptr.
GetNextToPollNeverNull ==
    IF \E s \in Subsystems : seqsUpdate[s]
        THEN OMRequestParams(CHOOSE s \in Subsystems : seqsUpdate[s])
        ELSE OMRequestParams("volumes")

GetNextToPoll ==
    IF seqsUpdate["network"] THEN OMRequestParams("network")
    ELSE IF seqsUpdate["boards"] THEN OMRequestParams("boards")
    ELSE IF seqsUpdate["move"] THEN OMRequestParams("move")
    ELSE IF seqsUpdate["heat"] THEN OMRequestParams("heat")
    ELSE IF seqsUpdate["tools"] THEN OMRequestParams("tools")
    ELSE IF seqsUpdate["spindles"] THEN OMRequestParams("spindles")
    ELSE IF seqsUpdate["directories"] THEN OMRequestParams("directories")
    ELSE IF seqsUpdate["fans"] THEN OMRequestParams("fans")
    ELSE IF seqsUpdate["inputs"] THEN OMRequestParams("inputs")
    ELSE IF seqsUpdate["job"] THEN OMRequestParams("job")
    ELSE IF seqsUpdate["scanner"] THEN OMRequestParams("scanner")
    ELSE IF seqsUpdate["sensors"] THEN OMRequestParams("sensors")
    ELSE IF seqsUpdate["state"] THEN OMRequestParams("state")
    ELSE IF seqsUpdate["volumes"] THEN OMRequestParams("volumes")
    ELSE nullptr

\* SeqsRequestDone(rde): the update bits after the switch.
SeqsRequestDone(rde) ==
    IF rde \in DOMAIN UpdateOfKey
        THEN [seqsUpdate EXCEPT ![UpdateOfKey[rde]] = FALSE]
        ELSE seqsUpdate

\* UpdateSeqs with the cases of every subsystem compiled in.
UpdateSeqsAll(rde, ival) ==
    IF rde \in DOMAIN SeqsOfRde /\ seqs[SeqsOfRde[rde]] # ival
        THEN /\ seqs' = [seqs EXCEPT ![SeqsOfRde[rde]] = ival % SeqsModulus]
             /\ seqsUpdate' = [seqsUpdate EXCEPT ![SeqsOfRde[rde]] = TRUE]
        ELSE UNCHANGED <<seqs, seqsUpdate>>

\* UpdateSeqs(rde, ival): ival is int32_t, the counter uint16_t; the cases of
\* the subsystems whose FETCH_ define is 0 are compiled out.
UpdateSeqs(rde, ival) ==
    IF rde \in DOMAIN SeqsOfRde /\ FETCH[SeqsOfRde[rde]] = 1 /\ seqs[SeqsOfRde[rde]] # ival
        THEN /\ seqs' = [seqs EXCEPT ![SeqsOfRde[rde]] = ival % SeqsModulus]
             /\ seqsUpdate' = [seqsUpdate EXCEPT ![SeqsOfRde[rde]] = TRUE]
        ELSE UNCHANGED <<seqs, seqsUpdate>>

\* UI::DoPolling: don't poll while we are on the Setup page.
DoPolling == currentTab # "tabSetup"

\* The outer condition of step 6 without its test of lastResponseTime.
TimeToPollNoResponseGap(now) ==
    /\ DoPolling
    /\ now - lastPollTime >= printerPollInterval

\* The outer condition of step 6.
TimeToPoll(now) ==
    /\ DoPolling
    /\ now - lastPollTime >= printerPollInterval
    /\ now - lastResponseTime >= printerResponseInterval

\* "if we've had a response since the last poll"
HadResponse(now) == now - lastPollTime > now - lastResponseTime

\* The timeout test against the poll interval.
PollTimedOutEarly(now) == now - lastPollTime >= defaultPrinterPollInterval

\* The timeout test one poll interval late.
PollTimedOutLate(now) == now - lastPollTime >= printerPollTimeout + defaultPrinterPollInterval

\* "last response was most likely incomplete start over"
PollTimedOut(now) == now - lastPollTime >= printerPollTimeout

\* lastPollTime = SystemTick::GetTickCount() after the send, which took d.
StampPoll(d) ==
    /\ tick + d <= MaxTick
    /\ tick' = tick + d
    /\ lastPollTime' = tick'
    /\ responseSincePoll' = FALSE

\* Step 6 of the main loop: "If it is time, poll the printer status."
MainLoopPoll(d) ==
    LET now == tick
        nextToPoll == GetNextToPoll
    IN  /\ pollTurn' = 1 - pollTurn
        /\ UNCHANGED <<messageVars, lastResponseTime, uiVars, seqVars, currentResponseType, upVars,
                       msgKey, rxVars>>
        /\ IF TimeToPoll(now)
             THEN IF HadResponse(now)
                    THEN /\ IF nextToPoll # nullptr
                              THEN /\ initialized' = TRUE
                                   /\ UNCHANGED status
                                   /\ sent' = DetailRequest(nextToPoll)
                              ELSE /\ \E done \in BOOLEAN :
                                         sent' = IF done THEN FileManagerRequest
                                                         ELSE SummaryRequest
                                   /\ UNCHANGED <<initialized, status>>
                         /\ StampPoll(d)
                    ELSE IF PollTimedOut(now)
                           THEN /\ sent' = SummaryRequest
                                /\ StampPoll(d)
                                /\ UNCHANGED <<initialized, status>>
                           ELSE /\ sent' = NoRequest
                                /\ UNCHANGED <<tick, lastPollTime, responseSincePoll,
                                               initialized, status>>
             ELSE /\ sent' = NoRequest
                  /\ UNCHANGED <<tick, lastPollTime, responseSincePoll, initialized, status>>

\* The clock advances by d.
Tick(d) ==
    /\ tick + d <= MaxTick
    /\ tick' = tick + d
    /\ UNCHANGED <<messageVars, lastPollTime, lastResponseTime, uiVars, seqVars, currentResponseType,
                   upVars, initialized, status, sent, pollTurn, msgKey, responseSincePoll, rxVars>>

(* --------------------------- user interface ---------------------------- *)

Tabs == {"tabControl", "tabSetup"}

\* UI::ChangePage(newTab), on a touch of a tab button.
ChangePage(newTab) ==
    /\ newTab # currentTab
    /\ currentTab' = newTab
    /\ UNCHANGED <<messageVars, clockVars, printerPollInterval, screensaverActive, seqVars,
                   currentResponseType, upVars, initialized, status, sent, pollTurn, msgKey,
                   responseSincePoll, rxVars>>

\* ActivateScreensaver, when the panel has been idle for the screensaver timeout.
ActivateScreensaver ==
    /\ ~screensaverActive
    /\ screensaverActive' = TRUE
    /\ printerPollInterval' = slowPrinterPollInterval
    /\ UNCHANGED <<messageVars, clockVars, currentTab, seqVars, currentResponseType, upVars,
                   initialized, status, sent, pollTurn, msgKey, responseSincePoll, rxVars>>

\* DeactivateScreensaver, on a touch or a status change.
DeactivateScreensaver ==
    /\ screensaverActive
    /\ screensaverActive' = FALSE
    /\ printerPollInterval' = defaultPrinterPollInterval
    /\ UNCHANGED <<messageVars, clockVars, currentTab, seqVars, currentResponseType, upVars,
                   initialized, status, sent, pollTurn, msgKey, responseSincePoll, rxVars>>

(* ---------------------------- object model ----------------------------- *)
(* A collection is the sequence of its nodes from the head along next; a   *)
(* node is a record of the fields of its struct.  A Tool's spindle is the  *)
(* index of the Spindle it points at.                                      *)

\* Tool::spindle == nullptr
NoSpindle == -1

\* uint8_t index: what the assignment ret->index = index keeps of a size_t
IndexWidth == 256

\* new Tool, new Spindle, new BedOrChamber with their member initialisers;
\* index is the size_t argument of GetOrCreate, which "ret->index = index"
\* stores as a uint8_t
NewTool(index) ==
    [index |-> index, heater |-> -1, extruder |-> -1, spindle |-> NoSpindle, status |-> "off",
     slot |-> MaxHeaters, slotPJob |-> MaxPendantTools]

NewSpindle(index) == [index |-> index, active |-> 0, tool |-> -1]

NewBedOrChamber(index) ==
    [index |-> index, heater |-> -1, slot |-> MaxHeaters, slotPJob |-> MaxPendantTools]

\* new Axis; Axis::visible has no initialiser and is written by the one
\* caller that creates an axis here.
NewAxis(index) == [index |-> index, visible |-> FALSE]

\* The conversion to int8_t of a value of -128..255.
Int8(n) == IF n > 127 THEN n - 256 ELSE n

\* The first loop of GetOrCreate: is there a node with this index?
Present(start, index) == \E k \in 1..Len(start) : start[k].index = index

\* "Insert it at the correct spot": the position of current when the while
\* loop of GetOrCreate ends, walking from position k.
RECURSIVE InsertAfter(_, _, _)
InsertAfter(start, index, k) ==
    IF k < Len(start) /\ start[k + 1].index < index
        THEN InsertAfter(start, index, k + 1)
        ELSE k

\* GetOrCreate that creates the node whatever its parameter create is.
GetOrCreateAlways(start, node, create) ==
    LET ret == [node EXCEPT !.index = node.index % IndexWidth]
    IN  IF Present(start, node.index)
            THEN start
            ELSE IF start = << >> \/ Head(start).index > node.index
                   THEN <<ret>> \o start
                   ELSE LET k == InsertAfter(start, node.index, 1)
                        IN  SubSeq(start, 1, k) \o <<ret>> \o SubSeq(start, k + 1, Len(start))

\* GetOrCreate(start, index, create): the collection afterwards; node is the
\* new T, node.index the argument index.  The searches compare the stored
\* uint8_t with the size_t argument; the new node stores the argument as a
\* uint8_t.
GetOrCreate(start, node, create) ==
    LET ret == [node EXCEPT !.index = node.index % IndexWidth]
    IN  IF Present(start, node.index) \/ ~create
            THEN start
            ELSE IF start = << >> \/ Head(start).index > node.index
                   THEN <<ret>> \o start
                   ELSE LET k == InsertAfter(start, node.index, 1)
                        IN  SubSeq(start, 1, k) \o <<ret>> \o SubSeq(start, k + 1, Len(start))

\* What GetOrCreate returns, as the position of the node in the collection
\* afterwards; 0 is nullptr.
Returned(start, node, create) ==
    IF Present(start, node.index)
        THEN CHOOSE k \in 1..Len(start) :
                /\ start[k].index = node.index
                /\ \A j \in 1..(k - 1) : start[j].index # node.index
        ELSE IF ~create THEN 0
        ELSE IF start = << >> \/ Head(start).index > node.index THEN 1
        ELSE InsertAfter(start, node.index, 1) + 1

\* GetOrCreate(start, index, true)->f = v
SetField(start, node, f, v) ==
    [GetOrCreate(start, node, TRUE) EXCEPT ![Returned(start, node, TRUE)][f] = v]

\* What a pointer read through nullptr, and the deletes that follow it, can
\* leave as a list: nothing, or up to two of the nodes that were in the list,
\* in any order.
Wild(all) ==
    {<< >>} \cup {<<all[i]>> : i \in 1..Len(all)}
            \cup {<<all[i], all[j]>> : i, j \in 1..Len(all)}

\* The loop of Remove for a match at the head with allFollowing, after
\* "start = toDelete->next; delete toDelete": the step toDelete = start->next
\* and the test.  With start == nullptr the step reads through nullptr.
RECURSIVE RemoveHeadLoop(_, _)
RemoveHeadLoop(start, all) ==
    IF start = << >>
        THEN Wild(all)
        ELSE IF Len(start) = 1
               THEN {start}
               ELSE RemoveHeadLoop(SubSeq(start, 3, Len(start)), all)

\* The loop of Remove for a head that does not match, s at position k.
RECURSIVE RemoveWalk(_, _, _, _)
RemoveWalk(start, index, allFollowing, k) ==
    IF k > Len(start)
        THEN start
        ELSE IF k = Len(start) \/ start[k + 1].index # index
               THEN RemoveWalk(start, index, allFollowing, k + 1)
               ELSE IF allFollowing
                      THEN SubSeq(start, 1, k)
                      ELSE RemoveWalk(SubSeq(start, 1, k) \o SubSeq(start, k + 2, Len(start)),
                                      index, allFollowing, k + 1)

\* Remove whose walk deletes the node after the head without the test of its
\* index.
RemoveNoTest(start, index, allFollowing) ==
    IF start # << >> /\ Head(start).index = index
        THEN IF allFollowing THEN RemoveHeadLoop(Tail(start), start) ELSE {Tail(start)}
        ELSE IF Len(start) >= 2
               THEN {IF allFollowing THEN <<Head(start)>>
                                     ELSE <<Head(start)>> \o SubSeq(start, 3, Len(start))}
               ELSE {start}

\* Remove(start, index, allFollowing): the lists it can leave.
Remove(start, index, allFollowing) ==
    IF start # << >> /\ Head(start).index = index
        THEN IF allFollowing THEN RemoveHeadLoop(Tail(start), start) ELSE {Tail(start)}
        ELSE {RemoveWalk(start, index, allFollowing, 1)}

\* OM::RemoveBed(index, allFollowing), OM::RemoveChamber: the node with this
\* index is removed and with allFollowing every node of greater index; no
\* node has the index: nothing is removed.
RemoveBedOrChamber(start, index, allFollowing) ==
    IF Present(start, index)
        THEN SelectSeq(start, LAMBDA n : IF allFollowing THEN n.index < index
                                                         ELSE n.index # index)
        ELSE start

\* UI::ResetBedsAndChambers that empties the list of tools too.
ResetBedsAndChambersAndTools ==
    /\ beds' = RemoveBedOrChamber(beds, 0, TRUE)
    /\ chambers' = RemoveBedOrChamber(chambers, 0, TRUE)
    /\ tools' = << >>
    /\ UNCHANGED <<spindles, bedSeen, chamberSeen>>

\* UI::ResetBedsAndChambers
ResetBedsAndChambers ==
    /\ beds' = RemoveBedOrChamber(beds, 0, TRUE)
    /\ chambers' = RemoveBedOrChamber(chambers, 0, TRUE)
    /\ UNCHANGED <<tools, spindles, bedSeen, chamberSeen>>

\* UI::SetBedOrChamberHeater(heaterIndex, heaterNumber, bed)
SetBedOrChamberHeater(heaterIndex, heaterNumber, bed) ==
    IF bed
        THEN /\ beds' = SetField(beds, NewBedOrChamber(heaterIndex), "heater", heaterNumber)
             /\ UNCHANGED chambers
        ELSE /\ chambers' = SetField(chambers, NewBedOrChamber(heaterIndex), "heater", heaterNumber)
             /\ UNCHANGED beds

\* UI::SetToolHeater(toolIndex, heater)
SetToolHeater(toolIndex, heater) ==
    /\ tools' = SetField(tools, NewTool(toolIndex), "heater", heater)
    /\ UNCHANGED spindles

\* toolStatusMap: the texts of tools^:state and the ToolStatus of each.
toolStatusMap ==
    <<[key |-> <<"active">>, val |-> "active"],
      [key |-> <<"off">>, val |-> "off"],
      [key |-> <<"standby">>, val |-> "standby"]>>

\* UI::UpdateToolStatus(toolIndex, toolStatus): tool = OM::GetTool(toolIndex);
\* tool->status = toolStatus.  For a tool that is not in the list tool is nullptr
\* and the assignment writes through it: the list is left as it was or as
\* such a write can leave it.
UpdateToolStatus(toolIndex, toolStatus) ==
    LET tool == Returned(tools, NewTool(toolIndex), FALSE)
    IN  /\ tools' \in IF tool = 0
                         THEN {tools} \cup Wild(tools)
                         ELSE {[tools EXCEPT ![tool].status = toolStatus]}
        /\ UNCHANGED spindles

\* UI::SetToolExtruder(toolIndex, extruder)
SetToolExtruder(toolIndex, extruder) ==
    /\ tools' = SetField(tools, NewTool(toolIndex), "extruder", extruder)
    /\ UNCHANGED spindles

\* UI::SetSpindleActive(index, active)
SetSpindleActive(index, active) == SetField(spindles, NewSpindle(index), "active", active)

\* UI::SetSpindleTool that leaves the tools as they are when toolIndex is -1.
SetSpindleToolNoScan(spindle, toolIndex) ==
    /\ spindles' = SetField(spindles, NewSpindle(spindle), "tool", toolIndex)
    /\ tools' = IF toolIndex = -1
                  THEN tools
                  ELSE SetField(tools, NewTool(toolIndex), "spindle", spindle)

\* UI::SetSpindleTool(spindle, toolIndex)
SetSpindleTool(spindle, toolIndex) ==
    /\ spindles' = SetField(spindles, NewSpindle(spindle), "tool", toolIndex)
    /\ tools' = IF toolIndex = -1
                  THEN [k \in 1..Len(tools) |->
                           IF tools[k].spindle = spindle
                               THEN [tools[k] EXCEPT !.spindle = NoSpindle]
                               ELSE tools[k]]
                  ELSE SetField(tools, NewTool(toolIndex), "spindle", spindle)

\* The smaller of two numbers.
Min(a, b) == IF a < b THEN a ELSE b

\* UI::AddBedOrChamber(bedOrChamber, slot, slotPJob): the node with the slots it
\* gets.
AddBedOrChamber(bedOrChamber, slot, slotPJob) ==
    [bedOrChamber EXCEPT
        !.slot = IF slot < MaxHeaters /\ bedOrChamber.heater > -1 THEN slot ELSE MaxHeaters,
        !.slotPJob = IF slotPJob < MaxPendantTools /\ bedOrChamber.heater > -1
                        THEN slotPJob
                        ELSE MaxPendantTools]

\* UI::AllToolsSeen: slot and slotPJob when the k-th tool of the list is
\* visited, the first bed having taken its slots; k = Len + 1 gives the
\* values left for the first chamber.
SlotAt(firstBeds, list, k) ==
    Min((IF firstBeds # << >> /\ firstBeds[1].heater > -1 THEN 1 ELSE 0) + (k - 1), MaxHeaters)

SlotPJobAt(firstBeds, list, k) ==
    Min((IF firstBeds # << >> /\ firstBeds[1].heater > -1 THEN 1 ELSE 0)
           + Cardinality({j \in 1..(k - 1) : /\ list[j].index # ProbeToolIndex
                                              /\ list[j].heater > -1}),
        MaxPendantTools)

\* UI::AllToolsSeen, called with list for the tools: the first bed, every
\* tool and the first chamber get their slots.
AllToolsSeen(list) ==
    /\ beds' = IF beds = << >> THEN beds
                              ELSE [beds EXCEPT ![1] = AddBedOrChamber(beds[1], 0, 0)]
    /\ tools' = [k \in 1..Len(list) |->
                   [list[k] EXCEPT
                       !.slot = SlotAt(beds, list, k),
                       !.slotPJob = IF /\ list[k].index # ProbeToolIndex
                                       /\ list[k].heater > -1
                                       /\ SlotPJobAt(beds, list, k) < MaxPendantTools
                                      THEN SlotPJobAt(beds, list, k)
                                      ELSE MaxPendantTools]]
    /\ chambers' = IF chambers = << >>
                      THEN chambers
                      ELSE [chambers EXCEPT
                               ![1] = AddBedOrChamber(chambers[1],
                                                      SlotAt(beds, list, Len(list) + 1),
                                                      SlotPJobAt(beds, list, Len(list) + 1))]

\* OM::GetToolForHeater(heater), OM::GetBedForHeater, OM::GetChamberForHeater:
\* the place of the first node with this heater, 0 for nullptr.
ForHeater(start, heater) ==
    IF \E k \in 1..Len(start) : start[k].heater = heater
        THEN CHOOSE k \in 1..Len(start) :
                /\ start[k].heater = heater
                /\ \A j \in 1..(k - 1) : start[j].heater # heater
        ELSE 0

\* UI::GetHeaterSlot(heater)
GetHeaterSlot(heater) ==
    IF ForHeater(beds, heater) # 0 THEN beds[ForHeater(beds, heater)].slot
    ELSE IF ForHeater(chambers, heater) # 0 THEN chambers[ForHeater(chambers, heater)].slot
    ELSE IF ForHeater(tools, heater) # 0 THEN tools[ForHeater(tools, heater)].slot
    ELSE -1

\* The elements of currentTemps and currentTempsPJob on which
\* UI::UpdateCurrentTemperature(heater, fval) calls SetValue(fval).
TempsSet(heater) ==
    LET tool == ForHeater(tools, heater)
        bed == ForHeater(beds, heater)
        chamber == ForHeater(chambers, heater)
    IN  (IF GetHeaterSlot(heater) >= 0 THEN {<<"currentTemps", GetHeaterSlot(heater)>>}
                                       ELSE { })
           \cup (IF tool # 0 /\ tools[tool].slotPJob < MaxPendantTools
                    THEN {<<"currentTempsPJob", tools[tool].slotPJob>>}
                    ELSE { })
           \cup (IF bed # 0 THEN {<<"currentTempsPJob", beds[bed].slotPJob>>} ELSE { })
           \cup (IF chamber # 0 THEN {<<"currentTempsPJob", chambers[chamber].slotPJob>>}
                                ELSE { })

\* Is the element inside its array?
InArray(element) ==
    element[2] < (IF element[1] = "currentTemps" THEN MaxHeaters ELSE MaxPendantTools)

\* UI::UpdateCurrentTemperature(heater, fval): the fields that can have been
\* set to fval.  An element outside its array is a pointer read past the
\* end of the array, and the call through it may set a field or none.
UpdateCurrentTemperature(heater) ==
    IF \A element \in TempsSet(heater) : InArray(element)
        THEN {TempsSet(heater)}
        ELSE SUBSET ({element \in TempsSet(heater) : InArray(element)}
                        \cup {<<"outside", 0>>})

\* UI::SetAxisVisible(index, v)
SetAxisVisible(index, v) ==
    IF index < MaxTotalAxes
        THEN SetField(axes, NewAxis(index), "visible", v)
        ELSE axes

\* OM::RemoveAxis(index, allFollowing)
RemoveAxis(index, allFollowing) == RemoveBedOrChamber(axes, index, allFollowing)

\* No direct call on a collection yet.
NoCall == [op |-> "none"]

\* No tools^:number and no spindles^:active tuple in this message yet.
NoneSeen == [tools |-> -1, spindles |-> -1]

\* for (size_t i = last + 1; i < index; ++i) Remove(start, i, false)
RECURSIVE RemoveGap(_, _, _)
RemoveGap(start, i, index) ==
    IF i < index
        THEN RemoveGap(CHOOSE l \in Remove(start, i, FALSE) : TRUE, i + 1, index)
        ELSE start

(* ------------------------------- alerts -------------------------------- *)
(* currentAlert is a record of flags, the set of the fields got, and the   *)
(* six fields; a float is kept in tenths.                                  *)

\* The fields of struct Alert that the Got* flags stand for.
AlertFields == {"controls", "mode", "seq", "text", "timeout", "title"}

\* The event of each field of the message box.
AlertFieldOfRde ==
    [rcvStateMessageBoxAxisControls |-> "controls", rcvStateMessageBoxMessage |-> "text",
     rcvStateMessageBoxMode |-> "mode", rcvStateMessageBoxSeq |-> "seq",
     rcvStateMessageBoxTimeout |-> "timeout", rcvStateMessageBoxTitle |-> "title"]

\* Alert::GotAll
GotAll == AlertFields

\* What GetInteger(data, rslt) leaves in rslt, which held old: an empty text
\* returns before rslt is written; else rslt is written with what StrToI32
\* read, 0 for a text that begins with no number, before the success is known.
IntegerInto(data, old) ==
    CASE data.form = "empty" -> old
      [] GetInteger(data).ok -> GetInteger(data).rslt
      [] OTHER -> 0

\* What GetUnsignedInteger(data, rslt) leaves in rslt.
UnsignedIntegerInto(data, old) ==
    CASE data.form = "empty" -> old
      [] GetUnsignedInteger(data).ok -> GetUnsignedInteger(data).rslt
      [] data.form = "dec" /\ ~data.neg -> data.whole
      [] OTHER -> 0

\* GetFloat: SafeStrtof must consume the whole text; the value in tenths.
GetFloat(data) ==
    CASE data.form = "int" -> [ok |-> TRUE, rslt |-> data.n * 10]
      [] data.form = "dec" ->
            [ok |-> TRUE,
             rslt |-> IF data.neg THEN -(data.whole * 10 + data.tenths)
                                  ELSE data.whole * 10 + data.tenths]
      [] OTHER -> [ok |-> FALSE, rslt |-> 0]

\* What GetFloat(data, rslt) leaves in rslt.
FloatInto(data, old) == IF data.form = "empty" THEN old ELSE GetFloat(data).rslt

\* currentAlert.flags |= Alert::Got...
Got(alert, field) == [alert EXCEPT !.flags = @ \cup {field}]

\* UI::ProcessAlert(alert): the popup is set and shown, alertMode set.
ProcessAlert(alert) ==
    /\ alertLog' = Append(alertLog, <<"ProcessAlert", [alert EXCEPT !.flags = { }]>>)
    /\ alertMode' = alert.mode

\* UI::ClearAlert
ClearAlert ==
    /\ alertLog' = Append(alertLog, <<"ClearAlert">>)
    /\ alertMode' = IF alertMode >= 0 THEN -1 ELSE alertMode

\* The end of EndReceivedMessage with the test of the flags for
\* Alert::GotAll left out.
EndAlertAnyFlags ==
    IF "mode" \in currentAlert.flags /\ currentAlert.mode < 0
        THEN /\ ClearAlert
             /\ UNCHANGED lastAlertSeq
        ELSE IF currentAlert.seq # lastAlertSeq
               THEN /\ ProcessAlert(currentAlert)
                    /\ lastAlertSeq' = currentAlert.seq
               ELSE UNCHANGED <<alertLog, alertMode, lastAlertSeq>>

\* ... with the test of the sequence number left out.
EndAlertAnySeq ==
    IF "mode" \in currentAlert.flags /\ currentAlert.mode < 0
        THEN /\ ClearAlert
             /\ UNCHANGED lastAlertSeq
        ELSE IF currentAlert.flags = GotAll
               THEN /\ ProcessAlert(currentAlert)
                    /\ lastAlertSeq' = currentAlert.seq
               ELSE UNCHANGED <<alertLog, alertMode, lastAlertSeq>>

\* ... with the two tests in the other order: delivery before the clear.
EndAlertDeliverFirst ==
    IF currentAlert.flags = GotAll /\ currentAlert.seq # lastAlertSeq
        THEN /\ ProcessAlert(currentAlert)
             /\ lastAlertSeq' = currentAlert.seq
        ELSE IF "mode" \in currentAlert.flags /\ currentAlert.mode < 0
               THEN /\ ClearAlert
                    /\ UNCHANGED lastAlertSeq
               ELSE UNCHANGED <<alertLog, alertMode, lastAlertSeq>>

\* The end of EndReceivedMessage: the alert is cleared or delivered.
EndAlert ==
    IF "mode" \in currentAlert.flags /\ currentAlert.mode < 0
        THEN /\ ClearAlert
             /\ UNCHANGED lastAlertSeq
        ELSE IF currentAlert.flags = GotAll /\ currentAlert.seq # lastAlertSeq
               THEN /\ ProcessAlert(currentAlert)
                    /\ lastAlertSeq' = currentAlert.seq
               ELSE UNCHANGED <<alertLog, alertMode, lastAlertSeq>>

(* ----------------------- the field table in memory ---------------------- *)
(* A C string is the sequence of its character codes; the table in memory   *)
(* is the sequence of the places its entries have in the declaration        *)
(* (fieldTable above), so that qsort permutes places.                       *)

\* The characters of each name that occurs in a path.
Spelling ==
    ":" :> <<58>>
    @@ "^" :> <<94>>
    @@ "a" :> <<97>>
    @@ "active" :> <<97, 99, 116, 105, 118, 101>>
    @@ "actualIP" :> <<97, 99, 116, 117, 97, 108, 73, 80>>
    @@ "actualValue" :> <<97, 99, 116, 117, 97, 108, 86, 97, 108, 117, 101>>
    @@ "axes" :> <<97, 120, 101, 115>>
    @@ "axisControls" :> <<97, 120, 105, 115, 67, 111, 110, 116, 114, 111, 108, 115>>
    @@ "babystep" :> <<98, 97, 98, 121, 115, 116, 101, 112>>
    @@ "bedHeaters" :> <<98, 101, 100, 72, 101, 97, 116, 101, 114, 115>>
    @@ "beep_freq" :> <<98, 101, 101, 112, 95, 102, 114, 101, 113>>
    @@ "beep_length" :> <<98, 101, 101, 112, 95, 108, 101, 110, 103, 116, 104>>
    @@ "boards" :> <<98, 111, 97, 114, 100, 115>>
    @@ "bogus" :> <<98, 111, 103, 117, 115>>
    @@ "chamberHeaters" :> <<99, 104, 97, 109, 98, 101, 114, 72, 101, 97, 116, 101, 114, 115>>
    @@ "current" :> <<99, 117, 114, 114, 101, 110, 116>>
    @@ "currentTool" :> <<99, 117, 114, 114, 101, 110, 116, 84, 111, 111, 108>>
    @@ "dir" :> <<100, 105, 114>>
    @@ "directories" :> <<100, 105, 114, 101, 99, 116, 111, 114, 105, 101, 115>>
    @@ "err" :> <<101, 114, 114>>
    @@ "extruders" :> <<101, 120, 116, 114, 117, 100, 101, 114, 115>>
    @@ "factor" :> <<102, 97, 99, 116, 111, 114>>
    @@ "fans" :> <<102, 97, 110, 115>>
    @@ "filament" :> <<102, 105, 108, 97, 109, 101, 110, 116>>
    @@ "file" :> <<102, 105, 108, 101>>
    @@ "fileName" :> <<102, 105, 108, 101, 78, 97, 109, 101>>
    @@ "filePosition" :> <<102, 105, 108, 101, 80, 111, 115, 105, 116, 105, 111, 110>>
    @@ "files" :> <<102, 105, 108, 101, 115>>
    @@ "firmwareName" :> <<102, 105, 114, 109, 119, 97, 114, 101, 78, 97, 109, 101>>
    @@ "generatedBy" :> <<103, 101, 110, 101, 114, 97, 116, 101, 100, 66, 121>>
    @@ "heat" :> <<104, 101, 97, 116>>
    @@ "heaters" :> <<104, 101, 97, 116, 101, 114, 115>>
    @@ "height" :> <<104, 101, 105, 103, 104, 116>>
    @@ "homed" :> <<104, 111, 109, 101, 100>>
    @@ "inputs" :> <<105, 110, 112, 117, 116, 115>>
    @@ "interfaces" :> <<105, 110, 116, 101, 114, 102, 97, 99, 101, 115>>
    @@ "idle" :> <<105, 100, 108, 101>>
    @@ "job" :> <<106, 111, 98>>
    @@ "key" :> <<107, 101, 121>>
    @@ "kinematics" :> <<107, 105, 110, 101, 109, 97, 116, 105, 99, 115>>
    @@ "lastModified" :> <<108, 97, 115, 116, 77, 111, 100, 105, 102, 105, 101, 100>>
    @@ "layer" :> <<108, 97, 121, 101, 114>>
    @@ "layerHeight" :> <<108, 97, 121, 101, 114, 72, 101, 105, 103, 104, 116>>
    @@ "letter" :> <<108, 101, 116, 116, 101, 114>>
    @@ "limits" :> <<108, 105, 109, 105, 116, 115>>
    @@ "machinePosition" :> <<109, 97, 99, 104, 105, 110, 101, 80, 111, 115, 105, 116, 105, 111, 110>>
    @@ "max" :> <<109, 97, 120>>
    @@ "message" :> <<109, 101, 115, 115, 97, 103, 101>>
    @@ "messageBox" :> <<109, 101, 115, 115, 97, 103, 101, 66, 111, 120>>
    @@ "mode" :> <<109, 111, 100, 101>>
    @@ "mounted" :> <<109, 111, 117, 110, 116, 101, 100>>
    @@ "move" :> <<109, 111, 118, 101>>
    @@ "name" :> <<110, 97, 109, 101>>
    @@ "network" :> <<110, 101, 116, 119, 111, 114, 107>>
    @@ "number" :> <<110, 117, 109, 98, 101, 114>>
    @@ "offsets" :> <<111, 102, 102, 115, 101, 116, 115>>
    @@ "printTime" :> <<112, 114, 105, 110, 116, 84, 105, 109, 101>>
    @@ "probes" :> <<112, 114, 111, 98, 101, 115>>
    @@ "reply" :> <<114, 101, 112, 108, 121>>
    @@ "resp" :> <<114, 101, 115, 112>>
    @@ "result" :> <<114, 101, 115, 117, 108, 116>>
    @@ "scanner" :> <<115, 99, 97, 110, 110, 101, 114>>
    @@ "sensors" :> <<115, 101, 110, 115, 111, 114, 115>>
    @@ "seq" :> <<115, 101, 113>>
    @@ "seqs" :> <<115, 101, 113, 115>>
    @@ "simulatedTime" :> <<115, 105, 109, 117, 108, 97, 116, 101, 100, 84, 105, 109, 101>>
    @@ "size" :> <<115, 105, 122, 101>>
    @@ "speedFactor" :> <<115, 112, 101, 101, 100, 70, 97, 99, 116, 111, 114>>
    @@ "spindles" :> <<115, 112, 105, 110, 100, 108, 101, 115>>
    @@ "off" :> <<111, 102, 102>>
    @@ "standby" :> <<115, 116, 97, 110, 100, 98, 121>>
    @@ "state" :> <<115, 116, 97, 116, 101>>
    @@ "status" :> <<115, 116, 97, 116, 117, 115>>
    @@ "timeout" :> <<116, 105, 109, 101, 111, 117, 116>>
    @@ "timesLeft" :> <<116, 105, 109, 101, 115, 76, 101, 102, 116>>
    @@ "title" :> <<116, 105, 116, 108, 101>>
    @@ "tool" :> <<116, 111, 111, 108>>
    @@ "tools" :> <<116, 111, 111, 108, 115>>
    @@ "upTime" :> <<117, 112, 84, 105, 109, 101>>
    @@ "userPosition" :> <<117, 115, 101, 114, 80, 111, 115, 105, 116, 105, 111, 110>>
    @@ "value" :> <<118, 97, 108, 117, 101>>
    @@ "visible" :> <<118, 105, 115, 105, 98, 108, 101>>
    @@ "volumes" :> <<118, 111, 108, 117, 109, 101, 115>>
    @@ "workplaceNumber" :> <<119, 111, 114, 107, 112, 108, 97, 99, 101, 78, 117, 109, 98, 101, 114>>
    @@ "workplaceOffsets" :> <<119, 111, 114, 107, 112, 108, 97, 99, 101, 79, 102, 102, 115, 101, 116, 115>>
    @@ "zzz" :> <<122, 122, 122>>
    @@ "true" :> <<116, 114, 117, 101>>
    @@ "True" :> <<84, 114, 117, 101>>
    @@ "false" :> <<102, 97, 108, 115, 101>>

\* The C string of a path given as names, ":" and "^".
RECURSIVE CStr(_)
CStr(path) == IF path = << >> THEN << >> ELSE Spelling[Head(path)] \o CStr(Tail(path))

\* varName of each entry of the declaration, as a C string.
fieldNames == [i \in 1..Len(fieldTable) |-> CStr(fieldTable[i].varName)]

tolower(c) == IF c >= 65 /\ c <= 90 THEN c + 32 ELSE c

\* strcasecmp(a, b): the difference of the first characters that differ with
\* case folded, the end of a string being the character 0.
RECURSIVE strcasecmp(_, _)
strcasecmp(a, b) ==
    CASE a = << >> /\ b = << >> -> 0
      [] a = << >> -> 0 - tolower(Head(b))
      [] b = << >> -> tolower(Head(a))
      [] tolower(Head(a)) # tolower(Head(b)) -> tolower(Head(a)) - tolower(Head(b))
      [] OTHER -> strcasecmp(Tail(a), Tail(b))

\* The comparison with its arguments exchanged.
SortCompareReversed(a, b) == strcasecmp(fieldNames[b], fieldNames[a])

\* The comparison main() hands to qsort, on two entries of the table.
SortCompare(a, b) == strcasecmp(fieldNames[a], fieldNames[b])

\* qsort(table, ..., compare): the table in the order of the comparison.  No
\* two entries compare equal, so every sorting algorithm gives this order:
\* each entry goes to the place after the entries that compare less.
qsort(table) ==
    LET n == Len(table)
        place == [i \in 1..n |->
                     Cardinality({j \in 1..n : SortCompare(table[j], table[i]) < 0}) + 1]
    IN  [k \in 1..n |-> table[CHOOSE i \in 1..n : place[i] = k]]

\* The loop of bsearch over the table in memory, and its return.
RECURSIVE bsearchLoop(_, _, _, _, _)
bsearchLoop(table, numElems, key, low, high) ==
    IF high > low
        THEN LET mid == (high - low) \div 2 + low
                 t == strcasecmp(key, fieldNames[table[mid + 1]])
             IN  IF t = 0
                   THEN fieldTable[table[mid + 1]].rde
                   ELSE IF t > 0
                          THEN bsearchLoop(table, numElems, key, mid + 1, high)
                          ELSE bsearchLoop(table, numElems, key, low, mid)
        ELSE IF low < numElems /\ strcasecmp(key, fieldNames[table[low + 1]]) = 0
               THEN fieldTable[table[low + 1]].rde
               ELSE "rcvUnknown"

\* bsearch(fieldTable, ARRAY_SIZE(fieldTable), key) on the table in memory.
bsearchInMemory(table, key) == bsearchLoop(table, Len(table), key, 0, Len(table))

\* The places 1, 2, ... of the declaration, in this order.
SourceOrder == [i \in 1..Len(fieldTable) |-> i]

Rotate(table, k) == [i \in 1..Len(table) |-> table[((i + k - 1) % Len(table)) + 1]]

Reverse(table) == [i \in 1..Len(table) |-> table[Len(table) + 1 - i]]

\* The declaration orders tried: the one of the source, rotations of it, and
\* these reversed.
DeclarationOrders ==
    {Rotate(SourceOrder, k * RotateStep) : k \in 0..MaxRotations}
        \cup {Reverse(Rotate(SourceOrder, k * RotateStep)) : k \in 0..MaxRotations}

\* Nothing searched for yet.
NotFound == [id |-> << >>, key |-> << >>, rde |-> "rcvUnknown"]

\* Paths that are in no entry of the table: before the first, after the
\* last, the beginning of an entry, an entry with more behind it, the empty
\* path, and a result path that was not rewritten.
AbsentPaths ==
    {<<"a">>, <<"zzz">>, <<"bogus">>, <<"seqs">>, <<"heat", ":", "heaters", "^">>,
     <<"state", ":", "upTime", ":", "bogus">>, << >>, <<"result", ":", "seqs", ":", "heat">>}

DeclaredPaths == {fieldTable[i].varName : i \in 1..Len(fieldTable)}

\* The search ProcessReceivedValue makes for the tuple with this id, which
\* it has rewritten to path.
Lookup(id, path) ==
    /\ found' = [id |-> id, key |-> path, rde |-> bsearchInMemory(sorted, CStr(path))]
    /\ UNCHANGED <<declared, sorted>>

\* A search outside any message.
LookupOnly(path) ==
    /\ Lookup(path, path)
    /\ UNCHANGED <<lastFound, clockVars, uiVars, seqVars, currentResponseType, upVars, initialized, status, sent,
                   pollTurn, msgKey, responseSincePoll, rxVars, resetPending, alertVars,
                   msgAlert, msgIndex, storeVars, arrayVars, omCall>>

(* ------------------------- received messages --------------------------- *)

\* GetOMRequestParams without the case rcvOMKeyHeat.
GetOMRequestParamsNoHeat ==
    CASE currentResponseType = "rcvOMKeyNoKey" -> noKeyParams
      [] currentResponseType \in
            {"rcvOMKeyBoards", "rcvOMKeyFans", "rcvOMKeyInputs",
             "rcvOMKeyJob", "rcvOMKeyMove", "rcvOMKeyNetwork", "rcvOMKeyScanner",
             "rcvOMKeySensors", "rcvOMKeySpindles", "rcvOMKeyState", "rcvOMKeyTools",
             "rcvOMKeyVolumes"} -> OMRequestParams(UpdateOfKey[currentResponseType])
      [] OTHER -> nullptr

\* GetOMRequestParams: the request parameters of the response type being
\* replied to, nullptr for the types the switch does not list.
GetOMRequestParams ==
    CASE currentResponseType = "rcvOMKeyNoKey" -> noKeyParams
      [] currentResponseType \in
            {"rcvOMKeyBoards", "rcvOMKeyFans", "rcvOMKeyHeat", "rcvOMKeyInputs",
             "rcvOMKeyJob", "rcvOMKeyMove", "rcvOMKeyNetwork", "rcvOMKeyScanner",
             "rcvOMKeySensors", "rcvOMKeySpindles", "rcvOMKeyState", "rcvOMKeyTools",
             "rcvOMKeyVolumes"} -> OMRequestParams(UpdateOfKey[currentResponseType])
      [] OTHER -> nullptr

\* The head of ProcessReceivedValue: an id that starts with "result" loses
\* "result" and, in a no-key response, the colon after it; in a keyed
\* response the key is put in front of what is left.
RewriteResult(id) ==
    IF Len(id) > 0 /\ Head(id) = "result" /\ GetOMRequestParams # nullptr
        THEN IF currentResponseType = "rcvOMKeyNoKey"
               THEN IF Len(id) > 1 THEN Tail(Tail(id)) ELSE << >>
               ELSE <<GetOMRequestParams.key>> \o Tail(id)
        ELSE id

\* Is a message being received (between StartReceivedMessage and
\* EndReceivedMessage)?
MessageOpen == msgKey # "idle"

\* StartReceivedMessage without currentAlert.flags = 0.
StartReceivedMessageKeepFlags ==
    /\ msgKey' = "none"
    /\ msgAlert' = { }
    /\ msgIndex' = NoneSeen
    /\ UNCHANGED <<resetPending, alertVars, storeVars, arrayVars, omCall, tableVars>>
    /\ UNCHANGED <<clockVars, uiVars, seqVars, currentResponseType, upVars, initialized, status,
                   sent, pollTurn, responseSincePoll, rxVars>>

\* StartReceivedMessage, the count of the tuples delivered left open.
StartMessage ==
    /\ msgKey' = "none"
    /\ currentAlert' = [currentAlert EXCEPT !.flags = { }]
    /\ msgAlert' = { }
    /\ msgIndex' = NoneSeen
    /\ UNCHANGED <<resetPending, lastAlertSeq, alertMode, alertLog, storeVars, arrayVars,
                   omCall, tableVars>>
    /\ UNCHANGED <<clockVars, uiVars, seqVars, currentResponseType, upVars, initialized, status,
                   sent, pollTurn, responseSincePoll, seqsReceived>>

\* StartReceivedMessage.  The parser calls it at the opening brace of every
\* message, also when the message before it broke off without its end.
StartReceivedMessage == StartMessage /\ UNCHANGED nTuples

\* case rcvKey
ReceivedKey(data) ==
    /\ currentResponseType' = bsearch(keyResponseTypeTable, Tokens(data))
    /\ msgKey' = currentResponseType'
    /\ visibleAxesCounted' = IF currentResponseType' = "rcvOMKeyMove" THEN 0
                                                                     ELSE visibleAxesCounted
    /\ lastSpindle' = IF currentResponseType' = "rcvOMKeySpindles" THEN -1 ELSE lastSpindle
    /\ lastTool' = IF currentResponseType' = "rcvOMKeyTools" THEN -1 ELSE lastTool
    /\ UNCHANGED <<seqVars, upVars, initialized, status, seqsReceived, resetPending, alertVars,
                   storeVars, axes>>

\* No sequence value received yet; a received value v is kept as <<v, turn>>,
\* where turn flips at every value received for the subsystem.
NotReceived == << >>

Turn(r) == IF r = NotReceived THEN 0 ELSE r[2]

\* case rcvLiveSeqsBoards ... rcvLiveSeqsVolumes
ReceivedSeqs(rde, data) ==
    /\ IF GetInteger(data).ok
         THEN UpdateSeqs(rde, GetInteger(data).rslt)
         ELSE UNCHANGED <<seqs, seqsUpdate>>
    /\ IF GetInteger(data).ok /\ rde \in DOMAIN SeqsOfRde
         THEN seqsReceived' = [seqsReceived EXCEPT ![SeqsOfRde[rde]] =
                                  <<GetInteger(data).rslt, 1 - Turn(seqsReceived[SeqsOfRde[rde]])>>]
         ELSE seqsReceived' = seqsReceived
    /\ resetPending' = IF GetInteger(data).ok /\ rde \in DOMAIN SeqsOfRde
                         THEN resetPending \ {SeqsOfRde[rde]}
                         ELSE resetPending
    /\ UNCHANGED <<currentResponseType, msgKey, upVars, initialized, status, alertVars, storeVars,
                   arrayVars>>

\* The restart test with <= for <.
RestartDetectedOrEqual(uival) == uival <= remoteUpTime

\* "Controller was restarted"
RestartDetected(uival) == uival < remoteUpTime

\* case rcvLiveStateUptime
ReceivedUptime(data) ==
    LET uival == GetUnsignedInteger(data).rslt
    IN  IF GetUnsignedInteger(data).ok
          THEN /\ IF RestartDetected(uival)
                    THEN /\ resetSeqs
                         /\ ResetBedsAndChambers
                         /\ restarts' = restarts + 1
                         /\ resetPending' = Subsystems
                    ELSE UNCHANGED <<seqs, seqsUpdate, initialized, status, restarts, resetPending,
                                     storeVars>>
               /\ remoteUpTime' = uival
               /\ decreases' = IF lastUpTime >= 0 /\ uival < lastUpTime
                                 THEN decreases + 1 ELSE decreases
               /\ lastUpTime' = uival
               /\ UNCHANGED <<currentResponseType, msgKey, seqsReceived, alertVars, arrayVars>>
          ELSE UNCHANGED <<seqVars, upVars, initialized, status, currentResponseType, msgKey,
                           seqsReceived, resetPending, alertVars, storeVars, arrayVars>>

\* What the handlers of the message box fields leave alone.
notAlertVars ==
    <<seqVars, upVars, initialized, status, currentResponseType, msgKey, seqsReceived, resetPending,
      storeVars, arrayVars>>

\* case rcvStateMessageBox: "Message box has been dealt with somewhere else"
ReceivedStateMessageBox(data) ==
    /\ IF data.form = "empty"
         THEN ClearAlert
         ELSE UNCHANGED <<alertLog, alertMode>>
    /\ UNCHANGED <<currentAlert, lastAlertSeq, notAlertVars>>

\* case rcvStateMessageBoxAxisControls
ReceivedStateMessageBoxAxisControls(data) ==
    LET a == [currentAlert EXCEPT !.controls = UnsignedIntegerInto(data, @)]
    IN  /\ currentAlert' = IF GetUnsignedInteger(data).ok THEN Got(a, "controls") ELSE a
        /\ UNCHANGED <<lastAlertSeq, alertMode, alertLog, notAlertVars>>

\* case rcvStateMessageBoxMessage
ReceivedStateMessageBoxMessage(data) ==
    /\ currentAlert' = Got([currentAlert EXCEPT !.text = data], "text")
    /\ UNCHANGED <<lastAlertSeq, alertMode, alertLog, notAlertVars>>

\* case rcvStateMessageBoxMode
ReceivedStateMessageBoxMode(data) ==
    LET a == [currentAlert EXCEPT !.mode = IntegerInto(data, @)]
    IN  /\ currentAlert' = IF GetInteger(data).ok THEN Got(a, "mode") ELSE a
        /\ UNCHANGED <<lastAlertSeq, alertMode, alertLog, notAlertVars>>

\* case rcvStateMessageBoxSeq
ReceivedStateMessageBoxSeq(data) ==
    LET a == [currentAlert EXCEPT !.seq = UnsignedIntegerInto(data, @)]
    IN  /\ currentAlert' = IF GetUnsignedInteger(data).ok THEN Got(a, "seq") ELSE a
        /\ UNCHANGED <<lastAlertSeq, alertMode, alertLog, notAlertVars>>

\* case rcvStateMessageBoxTimeout
ReceivedStateMessageBoxTimeout(data) ==
    LET a == [currentAlert EXCEPT !.timeout = FloatInto(data, @)]
    IN  /\ currentAlert' = IF GetFloat(data).ok THEN Got(a, "timeout") ELSE a
        /\ UNCHANGED <<lastAlertSeq, alertMode, alertLog, notAlertVars>>

\* case rcvStateMessageBoxTitle
ReceivedStateMessageBoxTitle(data) ==
    /\ currentAlert' = Got([currentAlert EXCEPT !.title = data], "title")
    /\ UNCHANGED <<lastAlertSeq, alertMode, alertLog, notAlertVars>>

\* What the handlers of the object-model fields leave alone.
notStoreVars ==
    <<seqVars, upVars, initialized, status, currentResponseType, msgKey, seqsReceived, resetPending,
      alertVars>>

\* GetBool: any text but the empty one is a bool, true if it reads "true" in
\* any case.
GetBool(data) ==
    [ok |-> data.form # "empty",
     rslt |-> data.form = "word" /\ strcasecmp(Spelling[data.s], Spelling["true"]) = 0]

\* case rcvHeatBedHeaters
ReceivedHeatBedHeaters(data, indices) ==
    LET seen == IF indices[1] = 0 THEN FALSE ELSE bedSeen
        h == GetInteger(data)
    IN  /\ IF ~seen /\ h.ok /\ h.rslt > -1
              THEN /\ bedSeen' = TRUE
                   /\ SetBedOrChamberHeater(h.rslt, indices[1], TRUE)
              ELSE /\ bedSeen' = seen
                   /\ UNCHANGED <<beds, chambers>>
        /\ UNCHANGED <<tools, spindles, chamberSeen, notStoreVars, arrayVars>>

\* case rcvHeatChamberHeaters
ReceivedHeatChamberHeaters(data, indices) ==
    LET seen == IF indices[1] = 0 THEN FALSE ELSE chamberSeen
        h == GetInteger(data)
    IN  /\ IF ~seen /\ h.ok /\ h.rslt > -1
              THEN /\ chamberSeen' = TRUE
                   /\ SetBedOrChamberHeater(h.rslt, indices[1], FALSE)
              ELSE /\ chamberSeen' = seen
                   /\ UNCHANGED <<beds, chambers>>
        /\ UNCHANGED <<tools, spindles, bedSeen, notStoreVars, arrayVars>>

\* case rcvSpindlesTool
ReceivedSpindlesTool(data, indices) ==
    /\ IF GetInteger(data).ok
         THEN SetSpindleTool(indices[1], GetInteger(data).rslt)
         ELSE UNCHANGED <<tools, spindles>>
    /\ UNCHANGED <<beds, chambers, bedSeen, chamberSeen, notStoreVars, arrayVars>>

\* case rcvMoveAxesVisible
ReceivedMoveAxesVisible(data, indices) ==
    /\ axes' = IF GetBool(data).ok THEN SetAxisVisible(indices[1], GetBool(data).rslt) ELSE axes
    /\ visibleAxesCounted' = IF GetBool(data).ok /\ GetBool(data).rslt
                                THEN (visibleAxesCounted + 1) % IndexWidth
                                ELSE visibleAxesCounted
    /\ UNCHANGED <<storeVars, lastTool, lastSpindle, notStoreVars>>

\* case rcvSpindlesActive
ReceivedSpindlesActive(data, indices) ==
    /\ spindles' = RemoveGap(IF GetUnsignedInteger(data).ok
                                THEN SetSpindleActive(indices[1], GetUnsignedInteger(data).rslt)
                                ELSE spindles,
                             lastSpindle + 1, indices[1])
    /\ lastSpindle' = Int8(indices[1])
    /\ UNCHANGED <<tools, beds, chambers, bedSeen, chamberSeen, axes, lastTool,
                   visibleAxesCounted, notStoreVars>>

\* case rcvToolsExtruders
ReceivedToolsExtruders(data, indices) ==
    /\ IF indices[2] = 0 /\ GetInteger(data).ok
         THEN SetToolExtruder(indices[1], Int8(GetInteger(data).rslt))
         ELSE UNCHANGED <<tools, spindles>>
    /\ UNCHANGED <<beds, chambers, bedSeen, chamberSeen, notStoreVars, arrayVars>>

\* case rcvToolsNumber
ReceivedToolsNumber(indices) ==
    /\ tools' = RemoveGap(tools, lastTool + 1, indices[1])
    /\ lastTool' = Int8(indices[1])
    /\ UNCHANGED <<spindles, beds, chambers, bedSeen, chamberSeen, axes, lastSpindle,
                   visibleAxesCounted, notStoreVars>>

\* case rcvToolsHeaters
ReceivedToolsHeaters(data, indices) ==
    /\ IF indices[2] = 0 /\ GetInteger(data).ok
         THEN SetToolHeater(indices[1], Int8(GetInteger(data).rslt))
         ELSE UNCHANGED <<tools, spindles>>
    /\ UNCHANGED <<beds, chambers, bedSeen, chamberSeen, notStoreVars, arrayVars>>

\* SetStatus that looks the text up whatever initialized is.
SetStatusAlwaysMapped(sts) ==
    LET statusFromMap == {i \in 1..Len(printerStatusMap) :
                             strcasecmp(CStr(sts), CStr(printerStatusMap[i].key)) = 0}
    IN  IF statusFromMap # { }
          THEN printerStatusMap[CHOOSE i \in statusFromMap : TRUE].val
          ELSE "connecting"

\* SetStatus(sts): the value of status afterwards (newStatus, which is
\* assigned to status when it differs).
SetStatus(sts) ==
    LET statusFromMap == {i \in 1..Len(printerStatusMap) :
                             strcasecmp(CStr(sts), CStr(printerStatusMap[i].key)) = 0}
    IN  IF ~initialized
          THEN "panelInitializing"
          ELSE IF statusFromMap # { }
                 THEN printerStatusMap[CHOOSE i \in statusFromMap : TRUE].val
                 ELSE "connecting"

\* case rcvLiveStateStatus
ReceivedLiveStateStatus(data) ==
    /\ status' = SetStatus(Tokens(data))
    /\ UNCHANGED <<seqVars, upVars, initialized, currentResponseType, msgKey, seqsReceived,
                   resetPending, alertVars, storeVars, arrayVars>>

\* case rcvLiveToolsState: the status that toolStatusMap has for the text,
\* found by bsearch with strcasecmp, ToolStatus::off for a text it has not.
ReceivedLiveToolsState(data, indices) ==
    LET statusFromMap == {i \in 1..Len(toolStatusMap) :
                             strcasecmp(CStr(Tokens(data)), CStr(toolStatusMap[i].key)) = 0}
        toolStatus == IF statusFromMap # { }
                        THEN toolStatusMap[CHOOSE i \in statusFromMap : TRUE].val
                        ELSE "off"
    IN  /\ UpdateToolStatus(indices[1], toolStatus)
        /\ UNCHANGED <<beds, chambers, bedSeen, chamberSeen, notStoreVars, arrayVars>>

\* case rcvLiveHeatHeatersCurrent
ReceivedLiveHeatHeatersCurrent(data, indices) ==
    /\ \E fields \in IF GetFloat(data).ok THEN UpdateCurrentTemperature(indices[1]) ELSE {{ }} :
          omCall' = [op |-> "rcvLiveHeatHeatersCurrent", data |-> data, indices |-> indices,
                     before |-> tools, fields |-> fields]
    /\ UNCHANGED <<storeVars, notStoreVars, arrayVars>>

\* What is kept of the tuple handled last: for a tuple of the live values,
\* the tuple and the tools before it; for a tuple that removes a gap, the
\* spindles before it too.
Recorded(rde, data, indices) ==
    IF rde \in {"rcvLiveStateStatus", "rcvLiveToolsState"}
        THEN [op |-> rde, data |-> data, indices |-> indices, before |-> tools]
        ELSE IF rde \in {"rcvToolsNumber", "rcvSpindlesActive"}
        THEN [op |-> rde, data |-> data, indices |-> indices, before |-> tools,
              spindles |-> spindles, lastTool |-> lastTool, lastSpindle |-> lastSpindle]
        ELSE NoCall

\* The index of the tools^:number and of the spindles^:active tuple handled last
\* in this message.
Seen(rde, indices) ==
    CASE rde = "rcvToolsNumber" -> [msgIndex EXCEPT !.tools = indices[1]]
      [] rde = "rcvSpindlesActive" -> [msgIndex EXCEPT !.spindles = indices[1]]
      [] OTHER -> msgIndex

\* ProcessReceivedValue(id, data, indices)
ProcessReceivedValue(id, data, indices) ==
    LET rde == bsearch(fieldTable, RewriteResult(id))
    IN  /\ MessageOpen
        /\ nTuples' = nTuples + 1
        /\ msgAlert' = IF rde \in DOMAIN AlertFieldOfRde
                          THEN msgAlert \cup {<<AlertFieldOfRde[rde], data>>}
                          ELSE msgAlert
        /\ msgIndex' = Seen(rde, indices)
        /\ rde # "rcvLiveHeatHeatersCurrent" => omCall' = Recorded(rde, data, indices)
        /\ UNCHANGED <<clockVars, uiVars, sent, pollTurn, responseSincePoll>>
        /\ CASE rde = "rcvKey" -> ReceivedKey(data)
             [] rde \in DOMAIN SeqsOfRde \cup {"rcvLiveSeqsReply"} -> ReceivedSeqs(rde, data)
             [] rde = "rcvLiveStateUptime" -> ReceivedUptime(data)
             [] rde = "rcvStateMessageBox" -> ReceivedStateMessageBox(data)
             [] rde = "rcvStateMessageBoxAxisControls" ->
                    ReceivedStateMessageBoxAxisControls(data)
             [] rde = "rcvStateMessageBoxMessage" -> ReceivedStateMessageBoxMessage(data)
             [] rde = "rcvStateMessageBoxMode" -> ReceivedStateMessageBoxMode(data)
             [] rde = "rcvStateMessageBoxSeq" -> ReceivedStateMessageBoxSeq(data)
             [] rde = "rcvStateMessageBoxTimeout" -> ReceivedStateMessageBoxTimeout(data)
             [] rde = "rcvStateMessageBoxTitle" -> ReceivedStateMessageBoxTitle(data)
             [] rde = "rcvLiveHeatHeatersCurrent" -> ReceivedLiveHeatHeatersCurrent(data, indices)
             [] rde = "rcvHeatBedHeaters" -> ReceivedHeatBedHeaters(data, indices)
             [] rde = "rcvHeatChamberHeaters" -> ReceivedHeatChamberHeaters(data, indices)
             [] rde = "rcvLiveStateStatus" -> ReceivedLiveStateStatus(data)
             [] rde = "rcvLiveToolsState" -> ReceivedLiveToolsState(data, indices)
             [] rde = "rcvMoveAxesVisible" -> ReceivedMoveAxesVisible(data, indices)
             [] rde = "rcvSpindlesActive" -> ReceivedSpindlesActive(data, indices)
             [] rde = "rcvSpindlesTool" -> ReceivedSpindlesTool(data, indices)
             [] rde = "rcvToolsExtruders" -> ReceivedToolsExtruders(data, indices)
             [] rde = "rcvToolsHeaters" -> ReceivedToolsHeaters(data, indices)
             [] rde = "rcvToolsNumber" -> ReceivedToolsNumber(indices)
             [] OTHER -> UNCHANGED <<seqVars, upVars, initialized, status, currentResponseType,
                                     msgKey, seqsReceived, resetPending, alertVars,
                                     storeVars, arrayVars>>

\* strcasecmp(id, name) == 0
SameName(id, name) == strcasecmp(CStr(id), CStr(name)) = 0

\* The test for the end of the axes that leaves out the response type.
AxesEndAnyReply(id) == SameName(id, <<"move", ":", "axes", "^">>)

\* currentResponseType == rcvOMKeyMove && strcasecmp(id, "move:axes^") == 0
AxesEnd(id) ==
    currentResponseType = "rcvOMKeyMove" /\ SameName(id, <<"move", ":", "axes", "^">>)

\* The test for an empty array inside a tool made on the index of the tool.
SubArrayEmptyFirst(indices) == indices[1] = 0

\* indices[1] == 0: the array inside the tool ended with no element
SubArrayEmpty(indices) == indices[2] = 0

\* ProcessArrayEnd(id, indices).  The calls of FileManager and UI::UpdateGeometry
\* change nothing that is kept here.
ProcessArrayEnd(id, indices) ==
    /\ MessageOpen
    /\ omCall' = [op |-> "ProcessArrayEnd", id |-> id, indices |-> indices, before |-> tools,
                  axes |-> axes]
    /\ IF indices[1] = 0 /\ CStr(id) = CStr(<<"files", "^">>)
         THEN UNCHANGED <<tools, spindles, axes, beds, chambers>>
         ELSE IF AxesEnd(id)
         THEN /\ axes' = RemoveAxis(indices[1], TRUE)
              /\ UNCHANGED <<tools, spindles, beds, chambers>>
         ELSE IF currentResponseType = "rcvOMKeySpindles"
         THEN /\ IF SameName(id, <<"spindles", "^">>)
                   THEN /\ spindles' \in Remove(spindles, lastSpindle + 1, TRUE)
                        /\ AllToolsSeen(tools)
                   ELSE UNCHANGED <<tools, spindles, beds, chambers>>
              /\ UNCHANGED axes
         ELSE IF currentResponseType = "rcvOMKeyTools"
         THEN /\ IF SameName(id, <<"tools", "^">>)
                   THEN /\ \E list \in Remove(tools, lastTool + 1, TRUE) : AllToolsSeen(list)
                        /\ UNCHANGED spindles
                   ELSE IF SameName(id, <<"tools", "^", ":", "extruders", "^">>)
                             /\ SubArrayEmpty(indices)
                   THEN SetToolExtruder(indices[1], -1) /\ UNCHANGED <<beds, chambers>>
                   ELSE IF SameName(id, <<"tools", "^", ":", "heaters", "^">>)
                             /\ SubArrayEmpty(indices)
                   THEN SetToolHeater(indices[1], -1) /\ UNCHANGED <<beds, chambers>>
                   ELSE UNCHANGED <<tools, spindles, beds, chambers>>
              /\ UNCHANGED axes
         ELSE UNCHANGED <<tools, spindles, axes, beds, chambers>>
    /\ UNCHANGED <<clockVars, uiVars, seqVars, currentResponseType, upVars, initialized, status, sent,
                   pollTurn, msgKey, responseSincePoll, rxVars, resetPending, alertVars,
                   msgAlert, msgIndex, bedSeen, chamberSeen, lastTool, lastSpindle,
                   visibleAxesCounted, tableVars>>

\* ProcessReceivedValue, the search of the field table not followed.
Receive(id, data, indices) ==
    /\ ProcessReceivedValue(id, data, indices)
    /\ UNCHANGED tableVars

\* ProcessReceivedValue, its search followed in the table in memory.
Dispatch(id, data, indices) ==
    /\ ProcessReceivedValue(id, data, indices)
    /\ Lookup(id, RewriteResult(id))
    /\ lastFound' = found

\* EndReceivedMessage
EndReceivedMessage ==
    /\ MessageOpen
    /\ lastResponseTime' = tick
    /\ seqsUpdate' = SeqsRequestDone(currentResponseType)
    /\ currentResponseType' = "rcvUnknown"
    /\ responseSincePoll' = TRUE
    /\ msgKey' = "idle"
    /\ EndAlert
    /\ UNCHANGED <<resetPending, currentAlert, msgAlert, msgIndex, storeVars, arrayVars, omCall,
                   tableVars>>
    /\ UNCHANGED <<tick, lastPollTime, uiVars, seqs, upVars, initialized, status, sent, pollTurn,
                   rxVars>>

(* --------------------------- what is received -------------------------- *)

NoIndices == <<0, 0, 0, 0>>

Tuple(id, data) == [id |-> id, data |-> data]

KeyTuple(d) == Tuple(<<"key">>, d)

SeqsTuple(s, d) == Tuple(<<"result", ":", "seqs", ":", s>>, d)

Fetched == {s \in Subsystems : FETCH[s] = 1}

\* The key of a summary reply and of the detail reply of every subsystem.
SubsystemKeyTexts == {EmptyText} \cup {WordText(s) : s \in Subsystems}

\* Keys the key table holds for no subsystem, and one it does not hold.
OtherKeyTexts == {WordText("seqs"), WordText("limits"), WordText("reply"), WordText("bogus")}

\* Spec: replies to every request, a new sequence value for every fetched
\* subsystem.
SchedTuples ==
    {KeyTuple(d) : d \in SubsystemKeyTexts}
        \cup {SeqsTuple(s, IntText(1)) : s \in Fetched}

\* Tuples whose path, rewritten or not, is in no entry of the field table.
UnknownTuples ==
    {Tuple(<<"bogus">>, IntText(1)), Tuple(<<"result", ":", "bogus">>, WordText("heat"))}

\* SpecKey: every key, sequence values of two subsystems.
KeyTuples ==
    {KeyTuple(d) : d \in SubsystemKeyTexts \cup OtherKeyTexts}
        \cup {SeqsTuple(s, IntText(1)) : s \in {"heat", "move"}}

\* SpecContext: the key of every subsystem and of the summary, a field of the
\* heat reply, a sequence value, and tuples with unknown paths.
ContextTuples ==
    {KeyTuple(d) : d \in SubsystemKeyTexts}
        \cup {Tuple(<<"result", ":", "heaters", "^", ":", "current">>, IntText(1)),
              SeqsTuple("heat", IntText(1))}
        \cup UnknownTuples

\* SpecSeqs: sequence values in and beyond the 16 bits of a counter, negative,
\* the reset value, a fraction, and texts that are no number.
SeqTexts ==
    {IntText(1), IntText(65537), IntText(65535), IntText(-1), DecText(FALSE, 0, 5),
     EmptyText, WordText("bogus")}

SeqsTuples ==
    {KeyTuple(d) : d \in SubsystemKeyTexts}
        \cup {SeqsTuple(s, d) : s \in Subsystems \cup {"reply"}, d \in SeqTexts}

\* SpecRestart: uptimes, in a summary reply and in a state reply, and sequence
\* values of two subsystems, the value resetSeqs gives the counters among them.
UpTimeTexts == {IntText(5), IntText(10), IntText(20), EmptyText, DecText(FALSE, 1, 5)}

RestartTuples ==
    {KeyTuple(EmptyText), KeyTuple(WordText("state"))}
        \cup {Tuple(<<"result", ":", "state", ":", "upTime">>, d) : d \in UpTimeTexts}
        \cup {Tuple(<<"result", ":", "upTime">>, d) : d \in UpTimeTexts}
        \cup {SeqsTuple(s, IntText(1)) : s \in {"heat", "state"}}
        \cup {SeqsTuple("heat", IntText(SeqsResetValue))}

\* SpecPoll: replies about one subsystem.
PollTuples ==
    {KeyTuple(EmptyText), KeyTuple(WordText("heat")),
     SeqsTuple("heat", IntText(1)), SeqsTuple("heat", IntText(2))}

\* A tuple with its array indices, sent in a message whose key tuple gave the
\* response type under.
IndexedTuple(under, id, data, indices) ==
    [under |-> under, id |-> id, data |-> data, indices |-> indices]

\* SpecStore: replies about tools, spindles and heat that create tools,
\* spindles, a bed and a chamber, and summary replies with uptimes.
StoreTuples ==
    {IndexedTuple("none", <<"key">>, d, NoIndices) :
        d \in {EmptyText, WordText("tools"), WordText("spindles"), WordText("heat")}}
        \cup {IndexedTuple("rcvOMKeyTools", <<"result", "^", ":", "heaters", "^">>,
                           IntText(1), <<i, 0, 0, 0>>) : i \in {0, 1}}
        \cup {IndexedTuple("rcvOMKeySpindles", <<"result", "^", ":", "tool">>,
                           IntText(n), NoIndices) : n \in {-1, 1, 2}}
        \cup {IndexedTuple("rcvOMKeyHeat", <<"result", ":", "bedHeaters", "^">>,
                           IntText(h), <<i, 0, 0, 0>>) : h \in {-1, 0, 2}, i \in {0, 1}}
        \cup {IndexedTuple("rcvOMKeyHeat", <<"result", ":", "chamberHeaters", "^">>,
                           IntText(0), NoIndices)}
        \cup {IndexedTuple("rcvOMKeyNoKey", <<"result", ":", "state", ":", "upTime">>,
                           IntText(u), NoIndices) : u \in {5, 10}}

\* SpecAlert: the name of each field of the message box in the reply, and the
\* values sent for it: two texts, a mode that is negative, one that is not and
\* one that is no number, two sequence numbers.
AlertName ==
    [controls |-> "axisControls", mode |-> "mode", seq |-> "seq", text |-> "message",
     timeout |-> "timeout", title |-> "title"]

AlertTexts ==
    [controls |-> {IntText(3)},
     mode |-> {IntText(-1), IntText(2), WordText("bogus")},
     seq |-> {IntText(0), IntText(1)},
     text |-> {WordText("hello"), WordText("bye")},
     timeout |-> {DecText(FALSE, 1, 5)},
     title |-> {WordText("T")}]

AlertId(f) == <<"result", ":", "messageBox", ":", AlertName[f]>>

\* The place of each field among the members of messageBox.
AlertRank == [controls |-> 1, text |-> 2, mode |-> 3, seq |-> 4, timeout |-> 5, title |-> 6]

\* The fields this message has given so far.
AlertFieldsGiven == {x[1] : x \in msgAlert}

\* Field f may come next: the fields come in their order, and at most one of
\* the six is missing from a message.
AlertFieldDue(f) ==
    /\ \A g \in AlertFieldsGiven : AlertRank[g] < AlertRank[f]
    /\ Cardinality(AlertFieldsGiven) >= AlertRank[f] - 2

\* At most one subsystem is sent sequence values in a run of SpecSeqs.
OneSubsystem(t) ==
    \A s \in Subsystems :
        seqsReceived[s] # NotReceived => t.id \in {<<"key">>, <<"result", ":", "seqs", ":", s>>}

(* ---------------------------- specifications --------------------------- *)

\* The state when main() enters its loop, but for the field table: the first
\* summary request has been sent, resetSeqs called.
InitProgram ==
    /\ tick = 1000
    /\ lastPollTime = tick
    /\ lastResponseTime = 0
    /\ printerPollInterval = defaultPrinterPollInterval
    /\ screensaverActive = FALSE
    /\ currentTab = "tabControl"
    /\ seqs = [s \in Subsystems |-> SeqsResetValue]
    /\ seqsUpdate = [s \in Subsystems |-> FALSE]
    /\ currentResponseType = "rcvUnknown"
    /\ remoteUpTime = 0
    /\ initialized = FALSE
    /\ status = "panelInitializing"
    /\ sent = SummaryRequest
    /\ pollTurn = 0
    /\ msgKey = "idle"
    /\ responseSincePoll = FALSE
    /\ restarts = 0
    /\ decreases = 0
    /\ lastUpTime = -1
    /\ seqsReceived = [s \in Subsystems |-> NotReceived]
    /\ nTuples = 0
    /\ resetPending = Subsystems
    /\ currentAlert = [flags |-> { }, controls |-> 0, mode |-> 0, seq |-> 0, text |-> EmptyText,
                       timeout |-> 0, title |-> EmptyText]
    /\ lastAlertSeq = 0
    /\ alertMode = -1
    /\ alertLog = << >>
    /\ msgAlert = { }
    /\ msgIndex = NoneSeen
    /\ tools = << >>
    /\ spindles = << >>
    /\ beds = << >>
    /\ chambers = << >>
    /\ bedSeen = FALSE
    /\ chamberSeen = FALSE
    /\ axes = << >>
    /\ lastTool = -1
    /\ lastSpindle = -1
    /\ visibleAxesCounted = 0
    /\ omCall = NoCall
    /\ found = NotFound
    /\ lastFound = NotFound

\* The state when main() enters its loop: the field table as declared in the
\* source has been sorted.
Init ==
    /\ InitProgram
    /\ declared = SourceOrder
    /\ sorted = qsort(declared)

\* A tuple of the reply to the request sent last: the key comes first and
\* names what was requested, sequence values come in a summary reply.
InReply(t) ==
    IF t.id = <<"key">>
        THEN /\ msgKey = "none"
             /\ \/ sent = SummaryRequest /\ t.data = EmptyText
                \/ \E s \in Subsystems :
                      sent = DetailRequest(OMRequestParams(s)) /\ t.data = WordText(s)
        ELSE msgKey = "rcvOMKeyNoKey"

\* Step 6 would send a request now.
PollDue == TimeToPoll(tick) /\ (HadResponse(tick) \/ PollTimedOut(tick))

\* The scheduler over all subsystems: every message is complete, the reply to
\* the request sent last, and received whole between two passes of the loop;
\* the loop is fast, a request that is due is sent before the clock moves on.
Next ==
    \/ ~MessageOpen /\ ~PollDue /\ Tick(1000)
    \/ ~MessageOpen /\ MainLoopPoll(0)
    \/ ~MessageOpen /\ ~responseSincePoll /\ StartReceivedMessage
    \/ /\ nTuples < MaxSchedTuples
       /\ \E t \in SchedTuples : InReply(t) /\ Receive(t.id, t.data, NoIndices)
    \/ EndReceivedMessage

Spec == Init /\ [][Next]_vars

\* The end of a message under every key, messages that break off included.
NextKey ==
    \/ StartReceivedMessage
    \/ nTuples < MaxKeyTuples /\ \E t \in KeyTuples : Receive(t.id, t.data, NoIndices)
    \/ EndReceivedMessage

SpecKey == Init /\ [][NextKey]_vars

\* The sequence counters under every kind of received value.
NextSeqs ==
    \/ ~MessageOpen /\ StartReceivedMessage
    \/ /\ nTuples < MaxSeqsTuples
       /\ \E t \in SeqsTuples : OneSubsystem(t) /\ Receive(t.id, t.data, NoIndices)
    \/ EndReceivedMessage

SpecSeqs == Init /\ [][NextSeqs]_vars

\* Restart detection.
NextRestart ==
    \/ Tick(2000)
    \/ MainLoopPoll(0)
    \/ ~MessageOpen /\ StartReceivedMessage
    \/ nTuples < MaxRestartTuples /\ \E t \in RestartTuples : Receive(t.id, t.data, NoIndices)
    \/ EndReceivedMessage

SpecRestart == Init /\ [][NextRestart]_vars

\* The timing of the polls: a finer clock, sends that take time, the Setup
\* page and the screensaver, messages that break off.
NextPoll ==
    \/ Tick(1000)
    \/ \E d \in SendDelays : MainLoopPoll(d)
    \/ \E newTab \in Tabs : ChangePage(newTab)
    \/ ActivateScreensaver
    \/ DeactivateScreensaver
    \/ StartReceivedMessage
    \/ nTuples < MaxPollTuples /\ \E t \in PollTuples : Receive(t.id, t.data, NoIndices)
    \/ EndReceivedMessage

SpecPoll == Init /\ [][NextPoll]_vars

\* The object model under replies about tools, spindles and heat, and under
\* restarts; every message is complete and begins with its key.
NextStore ==
    \/ ~MessageOpen /\ StartReceivedMessage
    \/ /\ nTuples < MaxStoreTuples
       /\ \E t \in StoreTuples :
             msgKey = t.under /\ Receive(t.id, t.data, t.indices)
    \/ msgKey \notin {"idle", "none"} /\ EndReceivedMessage

SpecStore == Init /\ [][NextStore]_vars

\* The message box: replies to the state request that hold the fields of the
\* message box in their order, each at most once and at most one missing, as
\* the members of one JSON object.
NextAlert ==
    \/ ~MessageOpen /\ StartReceivedMessage
    \/ /\ nTuples < MaxAlertTuples
       /\ msgKey = "none"
       /\ Receive(<<"key">>, WordText("state"), NoIndices)
    \/ /\ nTuples < MaxAlertTuples
       /\ msgKey = "rcvOMKeyState"
       /\ \E f \in AlertFields :
             /\ AlertFieldDue(f)
             /\ \E d \in AlertTexts[f] : Receive(AlertId(f), d, NoIndices)
    \/ /\ msgKey = "rcvOMKeyState"
       /\ Cardinality(AlertFieldsGiven) >= Cardinality(AlertFields) - 1
       /\ EndReceivedMessage

SpecAlert == Init /\ [][NextAlert]_vars

\* The field table declared in another order, and sorted.
InitDispatch ==
    /\ InitProgram
    /\ declared \in DeclarationOrders
    /\ sorted = qsort(declared)

\* The search of the field table for declared paths and for others, under
\* every declaration order tried.
NextDispatch == \E path \in DeclaredPaths \cup AbsentPaths : LookupOnly(path)

SpecDispatch == InitDispatch /\ [][NextDispatch]_vars

\* The subsystem context of result paths and the search of the field table
\* for them, messages that break off included.
NextContext ==
    \/ StartReceivedMessage
    \/ /\ nTuples < MaxContextTuples
       /\ \E t \in ContextTuples : Dispatch(t.id, t.data, NoIndices)
    \/ EndReceivedMessage

SpecContext == Init /\ [][NextContext]_vars

(* ----------------------- calls on the collections ---------------------- *)

\* What a call on the tools and spindles leaves alone.
notListVars ==
    <<clockVars, uiVars, seqVars, currentResponseType, upVars, initialized, status, sent, pollTurn,
      msgKey, responseSincePoll, rxVars, resetPending, alertVars, msgAlert, msgIndex, beds, chambers,
      bedSeen, chamberSeen, arrayVars, tableVars>>

\* GetOrCreateTool(index, create)
GetOrCreateTool(index, create) ==
    /\ tools' = GetOrCreate(tools, NewTool(index), create)
    /\ omCall' = [op |-> "GetOrCreate", index |-> index, flag |-> create, before |-> tools,
                  ret |-> Returned(tools, NewTool(index), create)]
    /\ UNCHANGED <<spindles, notListVars>>

\* RemoveTool(index, allFollowing)
RemoveTool(index, allFollowing) ==
    /\ tools' \in Remove(tools, index, allFollowing)
    /\ omCall' = [op |-> "Remove", index |-> index, flag |-> allFollowing, before |-> tools,
                  ret |-> 0]
    /\ UNCHANGED <<spindles, notListVars>>

\* The indices of the calls: five small ones and one that is no uint8_t.
ListIndices == {0, 1, 2, 3, 4, IndexWidth}

\* The list of tools under any calls of GetOrCreateTool and RemoveTool.
NextList ==
    \/ /\ Len(tools) < MaxNodes
       /\ \E index \in ListIndices, create \in BOOLEAN : GetOrCreateTool(index, create)
    \/ \E index \in ListIndices, allFollowing \in BOOLEAN : RemoveTool(index, allFollowing)

SpecList == Init /\ [][NextList]_vars

\* UI::SetSpindleTool(spindle, toolIndex), called by the session.
CallSetSpindleTool(spindle, toolIndex) ==
    /\ SetSpindleTool(spindle, toolIndex)
    /\ omCall' = [op |-> "SetSpindleTool", index |-> spindle, toolIndex |-> toolIndex,
                  before |-> tools]
    /\ UNCHANGED notListVars

\* The spindles and the tools of the calls of UI::SetSpindleTool.
SpindleIndices == {0, 1}

ToolNumbers == {-1, 0, 1, 2}

\* The tools and spindles under any calls of UI::SetSpindleTool.
NextSpindle ==
    \E spindle \in SpindleIndices, toolIndex \in ToolNumbers :
        CallSetSpindleTool(spindle, toolIndex)

SpecSpindle == Init /\ [][NextSpindle]_vars

(* ------------------------------ the arrays ------------------------------ *)

\* SpecArray: the elements of the arrays in a reply.
ArrayElements == {0, 1, 2}

Element(i) == <<i, 0, 0, 0>>

\* The tuples of element i of the array of a reply about tools, about
\* spindles and about move, and of the spindles in a summary reply.
ArrayTuples(i) ==
    {IndexedTuple("rcvOMKeyTools", <<"result", "^", ":", "number">>, IntText(i), Element(i)),
     IndexedTuple("rcvOMKeyTools", <<"result", "^", ":", "heaters", "^">>, IntText(1),
                  Element(i)),
     IndexedTuple("rcvOMKeyTools", <<"result", "^", ":", "extruders", "^">>, IntText(0),
                  Element(i)),
     IndexedTuple("rcvOMKeySpindles", <<"result", "^", ":", "active">>, IntText(5), Element(i)),
     IndexedTuple("rcvOMKeySpindles", <<"result", "^", ":", "tool">>, IntText(0), Element(i)),
     IndexedTuple("rcvOMKeyNoKey", <<"result", ":", "spindles", "^", ":", "active">>, IntText(5),
                  Element(i)),
     IndexedTuple("rcvOMKeyMove", <<"result", ":", "axes", "^", ":", "visible">>,
                  WordText("true"), Element(i)),
     IndexedTuple("rcvOMKeyMove", <<"result", ":", "axes", "^", ":", "visible">>,
                  WordText("false"), Element(i))}

\* The order of the tuples in a reply: the elements of an array by
\* increasing index, the number of a tool and the active speed of a spindle
\* before its other fields.
Follows(t, i) ==
    CASE t.id = <<"result", "^", ":", "number">> -> i > lastTool
      [] t.under = "rcvOMKeyTools" /\ t.id # <<"result", "^", ":", "number">> -> i = lastTool
      [] t.id = <<"result", "^", ":", "active">> -> i > lastSpindle
      [] t.id = <<"result", "^", ":", "tool">> -> i = lastSpindle
      [] t.id = <<"result", ":", "spindles", "^", ":", "active">> -> i > msgIndex.spindles
      [] OTHER -> TRUE

\* The ends of arrays: of the array inside the tool being received, with n
\* elements; of the tools and of the spindles; of the axes, with n elements,
\* in a reply about move and in a reply about tools.
ArrayEnds ==
    {[under |-> "rcvOMKeyTools", id |-> <<"tools", "^", ":", a, "^">>,
      indices |-> <<lastTool, n, 0, 0>>] : a \in {"heaters", "extruders"}, n \in {0, 1}}
      \cup {[under |-> "rcvOMKeyTools", id |-> <<"tools", "^">>,
             indices |-> <<lastTool + 1, 0, 0, 0>>],
            [under |-> "rcvOMKeySpindles", id |-> <<"spindles", "^">>,
             indices |-> <<lastSpindle + 1, 0, 0, 0>>]}
      \cup {[under |-> u, id |-> <<"move", ":", "axes", "^">>, indices |-> <<n, 0, 0, 0>>] :
              u \in {"rcvOMKeyTools", "rcvOMKeyMove"}, n \in 0..2}

\* Summary replies and replies about tools, spindles and move: the key, then
\* the elements of the array with indices that do not decrease, each array
\* with its end.
NextArray ==
    \/ ~MessageOpen /\ StartReceivedMessage
    \/ /\ nTuples < MaxArrayTuples
       /\ msgKey = "none"
       /\ \E k \in {EmptyText, WordText("tools"), WordText("spindles"), WordText("move")} :
             Receive(<<"key">>, k, NoIndices)
    \/ /\ nTuples < MaxArrayTuples
       /\ \E i \in ArrayElements : \E t \in ArrayTuples(i) :
             /\ msgKey = t.under
             /\ Follows(t, i)
             /\ Receive(t.id, t.data, t.indices)
    \/ \E e \in ArrayEnds :
          /\ msgKey = e.under
          /\ e.indices[1] >= 0
          /\ ProcessArrayEnd(e.id, e.indices)
    \/ msgKey \notin {"idle", "none"} /\ EndReceivedMessage

SpecArray == Init /\ [][NextArray]_vars

(* ---------------------------- the live values -------------------------- *)

\* SpecLive: summary replies (the empty key) with the state of tools 0 and 1,
\* replies about tools that give tool 0 and tool 1 a heater, and replies
\* about heat with the heater of a bed and the temperatures of heaters 0 and 1.
LiveTuples ==
    {IndexedTuple("none", <<"key">>, d, NoIndices) :
        d \in {EmptyText, WordText("tools"), WordText("heat")}}
        \cup {IndexedTuple("rcvOMKeyNoKey", <<"result", ":", "tools", "^", ":", "state">>,
                           WordText(w), Element(i)) :
                 w \in {"active", "standby", "bogus"}, i \in {0, 1}}
        \cup {IndexedTuple("rcvOMKeyTools", <<"result", "^", ":", "number">>, IntText(i),
                           Element(i)) : i \in {0, 1}}
        \cup {IndexedTuple("rcvOMKeyTools", <<"result", "^", ":", "heaters", "^">>,
                           IntText(1), Element(i)) : i \in {0, 1}}
        \cup {IndexedTuple("rcvOMKeyHeat", <<"result", ":", "bedHeaters", "^">>, IntText(0),
                           Element(0))}
        \cup {IndexedTuple("rcvOMKeyHeat", <<"result", ":", "heaters", "^", ":", "current">>,
                           d, Element(h)) :
                 d \in {DecText(FALSE, 20, 5), WordText("bogus")}, h \in {0, 1}}

\* The tuples of a reply about tools come by increasing index, the number of
\* a tool before its heaters; the array of tools ends after the tool received
\* last.
NextLive ==
    \/ ~MessageOpen /\ StartReceivedMessage
    \/ /\ nTuples < MaxLiveTuples
       /\ \E t \in LiveTuples :
             /\ msgKey = t.under
             /\ t.under = "rcvOMKeyTools" => Follows(t, t.indices[1])
             /\ Receive(t.id, t.data, t.indices)
    \/ /\ msgKey = "rcvOMKeyTools"
       /\ omCall.op # "ProcessArrayEnd"
       /\ ProcessArrayEnd(<<"tools", "^">>, Element(lastTool + 1))
    \/ msgKey \notin {"idle", "none"} /\ EndReceivedMessage

SpecLive == Init /\ [][NextLive]_vars

(* ------------------------------ the status ----------------------------- *)

\* SpecStatus: summary replies with the status, uptimes that rise and fall,
\* and a sequence value that makes heat dirty.
StatusTuples ==
    {Tuple(<<"result", ":", "state", ":", "status">>, WordText(w)) : w \in {"idle", "bogus"}}
        \cup {Tuple(<<"result", ":", "state", ":", "upTime">>, IntText(u)) : u \in {5, 10}}
        \cup {SeqsTuple("heat", IntText(1))}

\* The status under polls, summary replies and restarts; every message
\* begins with its key.
NextStatus ==
    \/ Tick(2000)
    \/ ~MessageOpen /\ MainLoopPoll(0)
    \/ ~MessageOpen /\ StartReceivedMessage
    \/ /\ nTuples < MaxStatusTuples
       /\ msgKey = "none"
       /\ Receive(<<"key">>, EmptyText, NoIndices)
    \/ /\ nTuples < MaxStatusTuples
       /\ msgKey = "rcvOMKeyNoKey"
       /\ \E t \in StatusTuples : Receive(t.id, t.data, NoIndices)
    \/ msgKey = "rcvOMKeyNoKey" /\ EndReceivedMessage

SpecStatus == Init /\ [][NextStatus]_vars

(* --------------------------- the fair scheduler ------------------------- *)

\* The fetched subsystems in the order of their sequence values in a summary
\* reply.
FetchedOrder ==
    <<"boards", "heat", "job", "move", "network", "spindles", "state", "tools", "volumes">>

\* A request was sent and its reply has not come.
Awaited == sent \notin {NoRequest, FileManagerRequest} /\ ~responseSincePoll

\* The tuples of the complete reply to the request sent last; nTuples counts
\* the tuples of the message.  A summary reply has the empty key, a sequence
\* value for every fetched subsystem, which for heat may be the value
\* resetSeqs gives the counters, and the uptime; a detail reply has the key
\* that was asked for.
ReplyLen == IF sent = SummaryRequest THEN Len(FetchedOrder) + 2 ELSE 1

ReplyTuples(k) ==
    IF sent # SummaryRequest
        THEN {KeyTuple(WordText(s)) : s \in {f \in Fetched : sent = DetailRequest(OMRequestParams(f))}}
        ELSE IF k = 1 THEN {KeyTuple(EmptyText)}
        ELSE IF k <= Len(FetchedOrder) + 1
        THEN {SeqsTuple(FetchedOrder[k - 1], IntText(v)) :
                 v \in IF FetchedOrder[k - 1] = "heat" THEN {1, SeqsResetValue} ELSE {1}}
        ELSE {Tuple(<<"result", ":", "state", ":", "upTime">>, IntText(u)) :
                 u \in {u \in {5, 10} : u >= remoteUpTime \/ restarts < MaxFairRestarts}}

\* The reply begins, some time after the request: the count of its tuples
\* starts at 0.
FairStart ==
    /\ ~MessageOpen
    /\ Awaited
    /\ tick > lastPollTime
    /\ StartMessage
    /\ nTuples' = 0

\* The next tuple of the reply.
FairReceive ==
    /\ MessageOpen
    /\ nTuples < ReplyLen
    /\ \E t \in ReplyTuples(nTuples + 1) : Receive(t.id, t.data, NoIndices)

\* The reply ends when all its tuples have come.
FairEnd ==
    /\ nTuples = ReplyLen
    /\ EndReceivedMessage

\* A pass of the main loop between two messages, when no reply is awaited.
FairPoll ==
    /\ ~MessageOpen
    /\ ~Awaited
    /\ MainLoopPoll(0)

\* The clock advances by d between two messages, when no request is due; the
\* reply to a request begins before the clock advances a second time.  The
\* program compares only differences of the clock and its two stamps: past
\* MaxTick the three are read from a clock that started d later.
FairTick(d) ==
    /\ ~MessageOpen
    /\ Awaited => tick = lastPollTime
    /\ ~PollDue
    /\ IF tick + d <= MaxTick
         THEN /\ tick' = tick + d
              /\ UNCHANGED <<lastPollTime, lastResponseTime>>
         ELSE /\ tick' = tick
              /\ lastPollTime' = IF lastPollTime > d THEN lastPollTime - d ELSE 0
              /\ lastResponseTime' = IF lastResponseTime > d THEN lastResponseTime - d ELSE 0
    /\ UNCHANGED <<messageVars, uiVars, seqVars, currentResponseType, upVars, initialized, status,
                   sent, pollTurn, msgKey, responseSincePoll, rxVars>>

NextFair ==
    \/ FairTick(1000)
    \/ FairPoll
    \/ FairStart
    \/ FairReceive
    \/ FairEnd

\* The main loop never stops, the clock never stops, and every request is
\* answered by its complete reply.
SpecFair ==
    /\ Init
    /\ [][NextFair]_vars
    /\ WF_vars(FairTick(1000))
    /\ WF_vars(FairPoll)
    /\ WF_vars(FairStart)
    /\ WF_vars(FairReceive)
    /\ WF_vars(FairEnd)

(* ------------------------------ properties ----------------------------- *)

\* A pass through step 6 of the main loop.
PollPass == pollTurn' # pollTurn

\* A pass through step 6 that sent a request.
RequestSent == PollPass /\ sent' # NoRequest

\* A pass that takes the branch "we've had a response since the last poll",
\* where GetNextToPoll picks what to request.
PickPass == PollPass /\ TimeToPoll(tick) /\ HadResponse(tick)

\* The order the spec gives.
PriorityOrder ==
    <<"network", "boards", "move", "heat", "tools", "spindles", "directories", "fans",
      "inputs", "job", "scanner", "sensors", "state", "volumes">>

AnyDirty == \E s \in Subsystems : seqsUpdate[s]

FirstDirty ==
    PriorityOrder[CHOOSE i \in 1..Len(PriorityOrder) :
                     /\ seqsUpdate[PriorityOrder[i]]
                     /\ \A j \in 1..(i - 1) : ~seqsUpdate[PriorityOrder[j]]]

\* A sequence value for s is received in this step; its value.
SeqReceived(s) == seqsReceived'[s] # seqsReceived[s]

SeqValue(s) == seqsReceived'[s][1]

\* The end of a message.
MessageEnd == MessageOpen /\ msgKey' = "idle"

\* C1: when a pass picks what to request and some dirty bit is set, the
\* request sent is the detail request of the dirty subsystem that comes first
\* in the priority order.
C1_PriorityOrder ==
    [][(PickPass /\ AnyDirty) => sent' = DetailRequest(OMRequestParams(FirstDirty))]_vars

\* C1: heat is requested while tools is dirty, after move, received dirty
\* with them, was requested and cleared.
C1_Witness ==
    /\ sent = DetailRequest(OMRequestParams("heat"))
    /\ seqsUpdate["heat"] /\ seqsUpdate["tools"] /\ ~seqsUpdate["move"]
    /\ seqsReceived["move"] # NotReceived

\* C2: a request is sent only if a message end was processed since the
\* request before it, or printerPollTimeout has passed since that request.
C2_OneOutstanding ==
    [][RequestSent => (responseSincePoll \/ tick - lastPollTime >= printerPollTimeout)]_vars

\* C2: a second request has been sent though no message ever ended.
C2_Witness ==
    /\ sent = SummaryRequest
    /\ lastPollTime >= 1000 + printerPollTimeout
    /\ lastResponseTime = 0
    /\ \A s \in Subsystems : ~seqsUpdate[s]

\* The timeout has passed with no message end since the last request.
RequestLost == ~responseSincePoll /\ tick - lastPollTime >= printerPollTimeout

\* C3 as stated: a pass that finds the request lost sends the summary
\* request, whatever the rest of the state.
C3_AsStated == [][(PollPass /\ RequestLost) => sent' = SummaryRequest]_vars

\* C3: while the Setup page is not displayed, a pass that finds the request
\* lost sends the summary request, whatever the dirty bits; while it is
\* displayed the pass sends nothing.
C3_LostRequest ==
    [][(PollPass /\ RequestLost) =>
            sent' = IF DoPolling THEN <<"M409", "F", "d99f">> ELSE NoRequest]_vars

\* C3: the summary request is sent again with a dirty bit set, the message
\* that set it having broken off.
C3_Witness ==
    /\ sent = SummaryRequest
    /\ lastPollTime >= 1000 + printerPollTimeout
    /\ lastResponseTime = 0
    /\ seqsUpdate["heat"]

\* C4: a request is sent only when printerPollInterval has passed since the
\* last request and printerResponseInterval since the last message end.
C4_Backpressure ==
    [][RequestSent => /\ tick - lastPollTime >= printerPollInterval
                      /\ tick - lastResponseTime >= printerResponseInterval]_vars

\* C4: a request has been sent after a message end, under the slow interval.
C4_Witness ==
    /\ sent # NoRequest
    /\ lastResponseTime > 0
    /\ lastPollTime > lastResponseTime
    /\ printerPollInterval = slowPrinterPollInterval

\* C5 as stated: the end of a message clears the dirty bit of the subsystem
\* its key tuple named and no other, clears none if its key named no
\* subsystem or it had no key, and leaves the counters.
C5_AsStated ==
    [][MessageEnd =>
          /\ seqs' = seqs
          /\ seqsUpdate' = IF msgKey \in DOMAIN UpdateOfKey
                             THEN [seqsUpdate EXCEPT ![UpdateOfKey[msgKey]] = FALSE]
                             ELSE seqsUpdate]_vars

\* C6 as stated: a received value that differs from the counter is stored in
\* the counter and sets the dirty bit, for every subsystem.
C6_AsStated ==
    [][\A s \in Subsystems :
          (SeqReceived(s) /\ SeqValue(s) # seqs[s]) =>
              (seqs'[s] = SeqValue(s) /\ seqsUpdate'[s])]_vars

\* C6: for a fetched subsystem a received value that differs from the counter
\* sets the counter to the value's low 16 bits and sets the dirty bit; for a
\* subsystem that is not fetched it changes neither.
C6_UpdateSeq ==
    [][\A s \in Subsystems :
          (SeqReceived(s) /\ SeqValue(s) # seqs[s]) =>
              IF FETCH[s] = 1
                THEN seqs'[s] = SeqValue(s) % 65536 /\ seqsUpdate'[s]
                ELSE seqs'[s] = seqs[s] /\ seqsUpdate'[s] = seqsUpdate[s]]_vars

\* C6: a value beyond 16 bits was received for heat and its low bits stored.
C6_Witness ==
    /\ seqsReceived["heat"] # NotReceived
    /\ seqsReceived["heat"][1] = 65537
    /\ seqs["heat"] = 1
    /\ seqsUpdate["heat"]

\* C7 as stated: receiving for a subsystem the value received last for it
\* does not change its dirty bit.
C7_AsStated ==
    [][\A s \in Subsystems :
          (seqsReceived[s] # NotReceived /\ SeqReceived(s)
              /\ SeqValue(s) = seqsReceived[s][1]) =>
                  seqsUpdate'[s] = seqsUpdate[s]]_vars

\* C8: a pass that picks what to request with no dirty bit set sends the
\* summary request, unless FileManager::ProcessTimers used the turn.
C8_SummaryWhenClean ==
    [][(PickPass /\ ~AnyDirty) =>
            (sent' = FileManagerRequest \/ sent' = <<"M409", "F", "d99f">>)]_vars

\* C8: the summary request was sent again before any timeout could pass,
\* with no dirty bit set.
C8_Witness ==
    /\ sent = SummaryRequest
    /\ lastPollTime > 1000
    /\ lastPollTime < 1000 + printerPollTimeout
    /\ ~AnyDirty

\* C9: the restarts detected are the strict decreases between consecutive
\* accepted uptime values.
C9_RestartOnDecrease == restarts = decreases

\* C9: one restart detected, at the 5 after greater values.
C9_Witness == restarts = 1 /\ lastUpTime = 5 /\ remoteUpTime = 5

\* C10 as stated: the step that detects a restart leaves every dirty bit set.
C10_AsStated ==
    [][restarts' # restarts => \A s \in Subsystems : seqsUpdate'[s]]_vars

\* C10: the step that detects a restart leaves every counter at 0xFFFF and
\* every dirty bit clear.
C10_ResetOnRestart ==
    [][restarts' # restarts =>
          \A s \in Subsystems : seqs'[s] = 65535 /\ ~seqsUpdate'[s]]_vars

\* C10: a restart was detected with a dirty bit set before it, and the bit
\* is clear.
C10_Witness ==
    /\ restarts = 1
    /\ seqsReceived["heat"] # NotReceived
    /\ ~seqsUpdate["heat"]
    /\ seqs["heat"] = SeqsResetValue

\* C11 as stated: after a restart was detected, the first sequence value
\* received for a subsystem since the reset, whatever it is, leaves the
\* subsystem dirty.
C11_AsStated ==
    [][\A s \in Subsystems :
          (restarts >= 1 /\ s \in resetPending /\ SeqReceived(s)) => seqsUpdate'[s]]_vars

Delivery ==
    /\ Len(alertLog') = Len(alertLog) + 1
    /\ alertLog'[Len(alertLog')][1] = "ProcessAlert"

Cleared ==
    /\ Len(alertLog') = Len(alertLog) + 1
    /\ alertLog'[Len(alertLog')][1] = "ClearAlert"

\* Does the text d coerce to the type of field f, and to what value?
Coerces(f, d) ==
    CASE f = "mode" -> GetInteger(d).ok
      [] f \in {"seq", "controls"} -> GetUnsignedInteger(d).ok
      [] f = "timeout" -> GetFloat(d).ok
      [] OTHER -> TRUE

Coerced(f, d) ==
    CASE f = "mode" -> GetInteger(d).rslt
      [] f \in {"seq", "controls"} -> GetUnsignedInteger(d).rslt
      [] f = "timeout" -> GetFloat(d).rslt
      [] OTHER -> d

\* Field f was successfully received in this message; the value received.
Received(f) == \E x \in msgAlert : x[1] = f /\ Coerces(f, x[2])

ReceivedValue(f) == Coerced(f, (CHOOSE x \in msgAlert : x[1] = f /\ Coerces(f, x[2]))[2])

AllReceived == \A f \in AlertFields : Received(f)

\* The deliveries so far, oldest first.
Deliveries == SelectSeq(alertLog, LAMBDA e : e[1] = "ProcessAlert")

\* C13: an alert is delivered at the end of a message only if each of the six
\* fields was successfully received between the begin of the message and this
\* end.
C13_CompositeAtomicity == [][Delivery => MessageEnd /\ AllReceived]_vars

\* C13: a message that gave every field but the controls has ended and no
\* alert was delivered, nor cleared.
C13_Witness ==
    /\ msgKey = "idle"
    /\ \A f \in AlertFields \ {"controls"} : Received(f)
    /\ ~Received("controls")
    /\ ReceivedValue("mode") >= 0
    /\ ReceivedValue("seq") # lastAlertSeq
    /\ alertLog = << >>

C15_AsStated ==
    \A i, j \in 1..Len(Deliveries) :
        i < j => Deliveries[i][2].seq # Deliveries[j][2].seq

\* C15: no delivery carries the sequence number of the delivery before it,
\* and lastAlertSeq is the sequence number of the latest delivery.
C15_DedupLast ==
    /\ \A i \in 1..(Len(Deliveries) - 1) : Deliveries[i][2].seq # Deliveries[i + 1][2].seq
    /\ Deliveries # << >> => lastAlertSeq = Deliveries[Len(Deliveries)][2].seq

\* C15: a second complete message with the sequence number of the one
\* delivered, and another text, has ended and was not delivered.
C15_Witness ==
    /\ msgKey = "idle"
    /\ AllReceived
    /\ ReceivedValue("mode") >= 0
    /\ Len(alertLog) = 1
    /\ alertLog[1][1] = "ProcessAlert"
    /\ alertLog[1][2].seq = ReceivedValue("seq")
    /\ alertLog[1][2].text # ReceivedValue("text")

\* C16: the end of a message in which a negative mode was received calls
\* UI::ClearAlert, delivers no alert and leaves lastAlertSeq, whatever other
\* fields the message gave.
C16_ClearOnNegativeMode ==
    [][(MessageEnd /\ Received("mode") /\ ReceivedValue("mode") < 0) =>
          Cleared /\ lastAlertSeq' = lastAlertSeq /\ Deliveries' = Deliveries]_vars

\* C16: a message that gave the six fields, with a negative mode and a new
\* sequence number, has ended: the alert displayed was cleared.
C16_Witness ==
    /\ msgKey = "idle"
    /\ AllReceived
    /\ ReceivedValue("mode") < 0
    /\ ReceivedValue("seq") # lastAlertSeq
    /\ Len(alertLog) = 2
    /\ alertLog[1][1] = "ProcessAlert"
    /\ alertLog[2][1] = "ClearAlert"
    /\ alertMode = -1

\* C17: whatever the order of the declaration, the search of the sorted table
\* for a path declared in the table returns the code declared with it.
C17_DispatchCorrect ==
    \A i \in 1..Len(fieldTable) :
        found.key = fieldTable[i].varName => found.rde = fieldTable[i].rde

\* C17: the table was declared in the reverse of the source's order, which
\* the sort changed, and the search for state:upTime returned its code.
C17_Witness ==
    /\ declared = Reverse(SourceOrder)
    /\ sorted # declared
    /\ found.key = <<"state", ":", "upTime">>
    /\ found.rde = "rcvLiveStateUptime"

\* The step is a call of ProcessReceivedValue whose search is followed.
Dispatched == nTuples' # nTuples

\* The program state a tuple can change.
programVars ==
    <<clockVars, uiVars, seqVars, currentResponseType, upVars, initialized, status, sent,
      currentAlert, lastAlertSeq, alertMode, storeVars, declared, sorted>>

\* C18: a tuple whose path, as rewritten, is in no entry of the field table
\* is searched for with the result rcvUnknown and changes nothing of the
\* program's state, so that the tuples after it find the state they would
\* have found without it.
C18_UnknownDropped ==
    [][(Dispatched /\ found'.key \notin DeclaredPaths) =>
          /\ found'.rde = "rcvUnknown"
          /\ UNCHANGED programVars
          /\ UNCHANGED <<msgKey, seqsReceived, alertLog, msgAlert, resetPending>>]_vars

\* C18: in a summary reply the tuple bogus was dropped and the sequence value
\* after it marked heat dirty.
C18_Witness ==
    /\ msgKey = "rcvOMKeyNoKey"
    /\ lastFound.id = <<"bogus">>
    /\ lastFound.rde = "rcvUnknown"
    /\ found.id = <<"result", ":", "seqs", ":", "heat">>
    /\ found.rde = "rcvLiveSeqsHeat"
    /\ seqsUpdate["heat"]
    /\ seqs["heat"] = 1

\* The name of the subsystem a key tuple named.
SubsystemOfKey == UpdateOfKey

\* C19: after a key tuple that named subsystem K in this message, a tuple
\* whose path starts with result is dispatched as the path with K for result;
\* after the key tuple of a summary reply, as the path without "result:".
C19_ResultRewriting ==
    [][(Dispatched /\ found'.id # << >> /\ Head(found'.id) = "result") =>
          /\ msgKey \in DOMAIN SubsystemOfKey =>
                found'.rde = bsearchInMemory(sorted,
                                 CStr(<<SubsystemOfKey[msgKey]>> \o Tail(found'.id)))
          /\ msgKey = "rcvOMKeyNoKey" =>
                found'.rde = bsearchInMemory(sorted, CStr(Tail(Tail(found'.id))))]_vars

\* C19: result:heaters^:current was dispatched under key heat as
\* heat:heaters^:current.
C19_Witness ==
    /\ msgKey = "rcvOMKeyHeat"
    /\ found.id = <<"result", ":", "heaters", "^", ":", "current">>
    /\ found.key = <<"heat", ":", "heaters", "^", ":", "current">>
    /\ found.rde = "rcvLiveHeatHeatersCurrent"

\* C20 as stated: while a message has given no key tuple the subsystem
\* context is none.
C20_AsStated == msgKey = "none" => currentResponseType = "rcvUnknown"

\* C21 as stated: a tuple of the message box whose value fails the coercion
\* for its field leaves the field it is for, and all else of the program's
\* state, as it was.
C21_AsStated ==
    [][\A x \in msgAlert' \ msgAlert :
          ~Coerces(x[1], x[2]) => UNCHANGED programVars]_vars

\* The indices of a collection, head first.
Indices(start) == [k \in 1..Len(start) |-> start[k].index]

\* No two nodes of the collection have the same index.
NoTwo(start) == \A i, j \in 1..Len(start) : i # j => start[i].index # start[j].index

\* The indices increase strictly from head to tail.
Increasing(start) == \A i \in 1..(Len(start) - 1) : start[i].index < start[i + 1].index

\* The step is the call omCall' tells of.
Called(op) == omCall'.op = op /\ omCall'.before = tools

\* C22 as stated: a collection never holds two entities with the same index,
\* and a lookup of an index after its creation returns the entity created:
\* a call of GetOrCreate with create on a collection without two entities of
\* one index leaves such a collection, in which the index of the call is found.
C22_AsStated ==
    [][(Called("GetOrCreate") /\ omCall'.flag /\ NoTwo(tools)) =>
          NoTwo(tools') /\ Present(tools', omCall'.index)]_vars

\* C23 as stated: each list is in strictly increasing order of index from
\* head to tail: a call of GetOrCreate with create on such a list leaves such
\* a list, with the nodes it held in the order they had.
C23_AsStated ==
    [][(Called("GetOrCreate") /\ omCall'.flag /\ Increasing(tools)) =>
          /\ Increasing(tools')
          /\ SelectSeq(tools', LAMBDA n : n \in {tools[k] : k \in 1..Len(tools)}) = tools]_vars

\* C24 as stated: Remove(collection, i, true) on a collection in increasing
\* order that holds an entity of index i leaves exactly the entities of
\* smaller index.
C24_AsStated ==
    [][(Called("Remove") /\ omCall'.flag /\ Increasing(tools)
          /\ Present(tools, omCall'.index)) =>
          tools' = SelectSeq(tools, LAMBDA n : n.index < omCall'.index)]_vars

\* C25: Remove(collection, i, allFollowing) for an index i that no entity of
\* the collection has leaves the collection as it was, for either value of
\* allFollowing.
C25_RemoveAbsentNoOp ==
    [][(Called("Remove") /\ ~Present(tools, omCall'.index)) => tools' = tools]_vars

\* C25: RemoveTool(2, true) was called on the tools 0, 1 and 3, and they are
\* still held.
C25_Witness ==
    /\ omCall.op = "Remove"
    /\ omCall.index = 2
    /\ omCall.flag
    /\ Indices(omCall.before) = <<0, 1, 3>>
    /\ tools = omCall.before

\* C26 as stated: a Tool's spindle reference designates Spindle S if and only
\* if the tool of S is the index of that Tool.
C26_AsStated ==
    \A t \in 1..Len(tools), s \in 1..Len(spindles) :
        tools[t].spindle = spindles[s].index <=> spindles[s].tool = tools[t].index

\* C27: SetSpindleTool(s, -1) leaves spindle s with no tool, every Tool that
\* pointed at spindle s with no spindle, and every other Tool as it was.
C27_ClearSpindleTool ==
    [][(Called("SetSpindleTool") /\ omCall'.toolIndex = -1) =>
          /\ \E s \in 1..Len(spindles') :
                spindles'[s].index = omCall'.index /\ spindles'[s].tool = -1
          /\ Len(tools') = Len(tools)
          /\ \A t \in 1..Len(tools) :
                tools'[t] = IF tools[t].spindle = omCall'.index
                              THEN [tools[t] EXCEPT !.spindle = NoSpindle]
                              ELSE tools[t]]_vars

\* C27: SetSpindleTool(0, -1) was called when Tool 1 pointed at spindle 0 and
\* Tool 2 at spindle 1: Tool 1 points at none, Tool 2 at spindle 1 still.
C27_Witness ==
    /\ omCall.op = "SetSpindleTool"
    /\ omCall.index = 0
    /\ omCall.toolIndex = -1
    /\ Indices(omCall.before) = <<1, 2>>
    /\ omCall.before[1].spindle = 0
    /\ omCall.before[2].spindle = 1
    /\ Indices(tools) = <<1, 2>>
    /\ tools[1].spindle = NoSpindle
    /\ tools[2].spindle = 1
    /\ \E s \in 1..Len(spindles) : spindles[s].index = 0 /\ spindles[s].tool = -1

\* A step of ProcessArrayEnd for the array of this name.
ArrayEnded(name) ==
    /\ omCall'.op = "ProcessArrayEnd"
    /\ omCall'.id = name
    /\ omCall'.before = tools
    /\ nTuples' = nTuples
    /\ msgKey' = msgKey

\* C28 as stated: after the end of tools^ in a reply about tools no Tool has
\* an index greater than the greatest index received in that reply, and after
\* the end of spindles^ in a reply about spindles no Spindle has one, whatever
\* the collection held before (lastTool and lastSpindle hold the greatest
\* index received, -1 when no element was received).
C28_AsStated ==
    [][/\ (ArrayEnded(<<"tools", "^">>) /\ currentResponseType = "rcvOMKeyTools") =>
             \A k \in 1..Len(tools') : tools'[k].index <= lastTool
       /\ (ArrayEnded(<<"spindles", "^">>) /\ currentResponseType = "rcvOMKeySpindles") =>
             \A k \in 1..Len(spindles') : spindles'[k].index <= lastSpindle]_vars

\* The field of a Tool that the array of this name inside a tool fills.
ReferenceOf(a) == IF a = "heaters" THEN "heater" ELSE "extruder"

\* C29: in a reply about tools, the end of tools^:extruders^ (tools^:heaters^)
\* of tool t with length zero leaves tool t with extruder (heater) -1; the end
\* with another length leaves every Tool as the tuples of the reply set it.
C29_EmptySubArrayClears ==
    [][\A a \in {"heaters", "extruders"} :
          (ArrayEnded(<<"tools", "^", ":", a, "^">>) /\ currentResponseType = "rcvOMKeyTools") =>
             IF omCall'.indices[2] = 0
               THEN \E k \in 1..Len(tools') :
                       /\ tools'[k].index = omCall'.indices[1]
                       /\ tools'[k][ReferenceOf(a)] = -1
               ELSE tools' = tools]_vars

\* C29: the array of heaters of tool 0 ended with length zero when tool 0 had
\* heater 1 and extruder 0: tool 0 has no heater and its extruder still.
C29_Witness ==
    /\ omCall.op = "ProcessArrayEnd"
    /\ omCall.id = <<"tools", "^", ":", "heaters", "^">>
    /\ omCall.indices[1] = 0
    /\ omCall.indices[2] = 0
    /\ currentResponseType = "rcvOMKeyTools"
    /\ Indices(omCall.before) = <<0>>
    /\ omCall.before[1].heater = 1
    /\ omCall.before[1].extruder = 0
    /\ Indices(tools) = <<0>>
    /\ tools[1].heater = -1
    /\ tools[1].extruder = 0

Handled(rde) == omCall'.op = rde /\ nTuples' # nTuples

\* C31 as stated: after a tools^:state tuple for tool i, the store holds a
\* Tool of index i (created if it was not there), whose status is the one of
\* toolStatusMap for the text received, off for a text it has not.
C31_AsStated ==
    [][Handled("rcvLiveToolsState") =>
          \E k \in 1..Len(tools') :
             /\ tools'[k].index = omCall'.indices[1]
             /\ tools'[k].status = IF omCall'.data.s \in {"active", "standby"}
                                      THEN omCall'.data.s ELSE "off"]_vars

\* C33: GetOrCreate(tools, i, false) returns the first Tool of index i, none
\* when no Tool has index i, and leaves the tools, the spindles, the beds, the
\* chambers and the axes as they were.
C33_PureLookup ==
    [][(Called("GetOrCreate") /\ ~omCall'.flag) =>
          /\ <<tools, spindles, beds, chambers, axes>>' = <<tools, spindles, beds, chambers, axes>>
          /\ IF \E k \in 1..Len(tools) : tools[k].index = omCall'.index
               THEN /\ omCall'.ret \in 1..Len(tools)
                    /\ tools[omCall'.ret].index = omCall'.index
               ELSE omCall'.ret = 0]_vars

\* C33: GetOrCreate(tools, 3, false) was called on the tools 1, 3 and
\* returned the second; the tools are 1, 3 still.
C33_Witness ==
    /\ omCall.op = "GetOrCreate"
    /\ ~omCall.flag
    /\ omCall.index = 3
    /\ Indices(omCall.before) = <<1, 3>>
    /\ omCall.ret = 2
    /\ tools = omCall.before

\* C37 as stated: the end of a message that gave all six fields with a mode
\* that is not negative delivers the alert if no alert with its sequence
\* number was delivered before, the first such message after startup and the
\* sequence number 0 included.
C37_AsStated ==
    [][(/\ MessageOpen
        /\ ~MessageOpen'
        /\ currentAlert.flags = GotAll
        /\ currentAlert.mode >= 0
        /\ \A k \in 1..Len(alertLog) :
              alertLog[k][1] = "ProcessAlert" => alertLog[k][2].seq # currentAlert.seq) =>
          /\ Len(alertLog') = Len(alertLog) + 1
          /\ alertLog'[Len(alertLog')][1] = "ProcessAlert"
          /\ alertLog'[Len(alertLog')][2].seq = currentAlert.seq]_vars

\* The status printerStatusMap has for a text, connecting for a text it has
\* not.
MappedStatus(data) ==
    IF data = WordText("idle") THEN "idle" ELSE IF data = WordText("off") THEN "off"
                                                ELSE "connecting"

\* C38: initialized becomes true only in a pass of the main loop that sends
\* a detail request, and a detected restart leaves it false; a state:status
\* tuple received while it is false sets status to panelInitializing whatever
\* its text, and one received while it is true sets status to the status of
\* its text.
C38_InitializingUntilDetail ==
    [][/\ (initialized' /\ ~initialized) =>
             \E s \in Subsystems : sent' = DetailRequest(OMRequestParams(s))
       /\ restarts' # restarts => (~initialized' /\ status' = "panelInitializing")
       /\ Handled("rcvLiveStateStatus") =>
             status' = IF initialized THEN MappedStatus(omCall'.data)
                                      ELSE "panelInitializing"]_vars

\* C38: a detail request had been sent; then a restart was detected, and the
\* tuple state:status = idle that came after it, before any further detail
\* request, left the status at panelInitializing.
C38_Witness ==
    /\ restarts = 1
    /\ ~initialized
    /\ omCall.op = "rcvLiveStateStatus"
    /\ omCall.data = WordText("idle")
    /\ status = "panelInitializing"
    /\ \E s \in Subsystems : sent = DetailRequest(OMRequestParams(s))

\* The nodes of a list that lie in the gap are gone from the list after, and
\* the nodes that do not are kept.
GapRemoved(before, after, previous, i) ==
    \A k \in 1..Len(before) :
       (\E j \in 1..Len(after) : after[j].index = before[k].index)
          <=> ~(previous < before[k].index /\ before[k].index < i)

\* C39 as stated: a tools^:number tuple with index i removes the tools with an
\* index strictly between the index this message gave before, -1 for none,
\* and i, and no other tool; a spindles^:active tuple does so with the
\* spindles, in every message.
C39_AsStated ==
    [][/\ Handled("rcvToolsNumber") =>
             GapRemoved(tools, tools', msgIndex.tools, omCall'.indices[1])
       /\ Handled("rcvSpindlesActive") =>
             GapRemoved(spindles, spindles', msgIndex.spindles, omCall'.indices[1])]_vars

\* C36 as stated: the spindle of every tool that has one is a spindle in the
\* store.
C36_AsStated ==
    \A k \in 1..Len(tools) :
       tools[k].spindle # NoSpindle =>
          \E j \in 1..Len(spindles) : spindles[j].index = tools[k].spindle

\* Does a tool, a bed or a chamber in the store have this heater?
Referenced(heater) ==
    \/ ForHeater(tools, heater) # 0
    \/ ForHeater(beds, heater) # 0
    \/ ForHeater(chambers, heater) # 0

\* C32 as stated: in a reply about heat a heaters^:current tuple with a value
\* that parses sets a temperature field of the display if and only if a tool,
\* a bed or a chamber in the store has the heater of its index; if none has,
\* nothing is set and the store stays as it is.
C32_AsStated ==
    [][(/\ Handled("rcvLiveHeatHeatersCurrent")
        /\ currentResponseType = "rcvOMKeyHeat"
        /\ GetFloat(omCall'.data).ok) =>
          /\ Referenced(omCall'.indices[1]) <=>
                \E element \in omCall'.fields : element[1] # "outside"
          /\ ~Referenced(omCall'.indices[1]) =>
                (omCall'.fields = { } /\ UNCHANGED <<storeVars, arrayVars>>)]_vars

\* The subsystem is named in the detail request sent last.
Named(s) == sent = DetailRequest(OMRequestParams(s))

\* A restart has just been detected: resetSeqs has run and no sequence value
\* has come since.
RestartJustDetected == restarts > 0 /\ resetPending = Subsystems

\* C34 as stated: after a restart is detected every fetched subsystem is
\* eventually named in a detail request.
C34_AsStated == \A s \in Fetched : RestartJustDetected ~> Named(s)

\* C35 as stated: every subsystem whose dirty bit is set is eventually named
\* in a detail request, and a summary request that no timeout caused is sent
\* only when no dirty bit is set.
C35_AsStated ==
    /\ \A s \in Subsystems : seqsUpdate[s] ~> Named(s)
    /\ [][(pollTurn' # pollTurn /\ sent' = SummaryRequest /\ HadResponse(tick)) =>
             \A s \in Subsystems : ~seqsUpdate[s]]_vars

====
